---------------------------- MODULE Spec2Model ----------------------------
(***************************************************************************)
(* A model of the goacme ACME client (package goacme, src/acme.go) and of  *)
(* the cert command of its command line tool (cmd/goacme).                 *)
(*                                                                         *)
(* Two state machines share this module:                                   *)
(*   Spec      concurrent callers of Client.PostJWS on one Client, with    *)
(*             every HEAD and POST they put on the wire;                   *)
(*   CertSpec  the cert command: runCert, authz and pollCert, as one       *)
(*             sequential process against a CA (CertFairSpec adds the      *)
(*             fairness of a running process).                             *)
(***************************************************************************)
EXTENDS Integers, Sequences, FiniteSets, TLC

VARIABLES
    \* ---- Spec: Client.PostJWS ----
    th,           \* per goroutine: position in PostJWS and its locals
    wire,         \* every HEAD and POST handed to the HTTP client, in order
    calls,        \* number of PostJWS calls started so far
    \* ---- CertSpec: the cert command ----
    cpc,          \* position of the cert command
    certManual,   \* the -manual flag
    di,           \* index in args of the domain whose flow is running
    z,            \* result of the last Authorize (authz's z and err)
    chal,         \* index in z.Challenges of the chosen challenge, 0: none
    acc,          \* result of the last Accept
    caStatus,     \* the CA's status of the current authorization
    lastPoll,     \* the last GetAuthz response and what GetAuthz returned
    gotValid,     \* domains for which a GetAuthz response said "valid"
    authzOK,      \* domains whose authz returned nil
    authzErr,     \* the error authz returned, Nil while there is none
    listening,    \* the domains whose challenge listener is open
    exitStatus,   \* main.go's exitStatus; the process status once it ended
    newCertSent,  \* number of POSTs sent to the new-cert URL
    cc,           \* result of CreateCert
    lastFetch,    \* the last FetchCert outcome in pollCert
    sleepDur,     \* the duration pollCert sleeps, 0 when not sleeping
    certWritten,  \* the certificate file was written
    \* ---- ErrSpec: responseError ----
    reRes,        \* the response last given to responseError
    reErr,        \* the Error responseError of errors.go made of it
    reErr0,       \* the Error responseError of acme.go made of it
    \* ---- RegSpec: Register, GetReg, UpdateReg ----
    acct,         \* the caller's Account
    reg,          \* the last registration call: what was sent, received, returned
    \* ---- LibSpec: one call of a function of the library ----
    lib,          \* the call: the function, its arguments, its result
    \* ---- ShareSpec: a registration call on an Account held by two ----
    upd,          \* the doReg call in flight: its position, its response
    seen,         \* what the other holder of the Account last read of it
    \* ---- MainSpec: main and the callers of setExitStatus ----
    mpc,          \* where main is: "start", "run" (in cmd.run), "exited"
    margs,        \* flag.Args() of the process
    status,       \* the status the process ended with, once mpc is "exited"
    exitMu,       \* the goroutines that hold exitMu
    gs,           \* each goroutine's position in setExitStatus, and its n
    recorded,     \* the n of the setExitStatus calls that have returned
    \* ---- RetrySpec: RetryError.Error ----
    retry,        \* the goroutine formatting a RetryError: position, frames
    \* ---- ThumbSpec: jwkThumbprint, byte by byte ----
    thumb         \* the call of jwkThumbprint: sha256's position, the results

postVars == <<th, wire, calls>>
certVars == <<cpc, certManual, di, z, chal, acc, caStatus, lastPoll, gotValid,
              authzOK, authzErr, listening, exitStatus, newCertSent, cc,
              lastFetch, sleepDur, certWritten>>
errVars == <<reRes, reErr, reErr0>>
regVars == <<acct, reg>>
shareVars == <<upd, seen>>
mainVars == <<mpc, margs, status, exitMu, gs, recorded>>
moreVars == <<thumb, retry>>
callVars == <<lib, shareVars, mainVars, moreVars>>
libVars == <<errVars, regVars, callVars>>
vars == <<postVars, certVars, libVars>>

\* ------------------------------------------------------------------------
\* Bounds of the model
\* ------------------------------------------------------------------------
MaxCalls == 3          \* PostJWS calls started in one behaviour
ThumbCalls == 2        \* calls of jwkThumbprint on the same key
NumGoroutines == 2     \* goroutines that call setExitStatus beside main
MaxStatus == 2         \* the largest n given to setExitStatus
NumDomains == 2        \* domains given to the cert command

\* ------------------------------------------------------------------------
\* Values
\* ------------------------------------------------------------------------
Nil == "nil"                         \* a nil error
EmptyString == ""
ErrNonceNotFound == "nonce not found"
ErrTransport == "transport error"    \* an error of http.Client (Head, Do, Get)
ErrSign == "jws error"               \* an error of jwsEncodeJSON

Goroutines == {"g1", "g2"}
URLs == {"new-authz", "new-cert"}

\* What client.Head can give: a transport error (no response), or a
\* response whose replay-nonce header is absent/empty or holds a nonce.
HeadOutcomes(fresh) ==
    { [ok |-> FALSE, nonce |-> EmptyString],
      [ok |-> TRUE,  nonce |-> EmptyString],
      [ok |-> TRUE,  nonce |-> fresh] }

NoHead == [ok |-> FALSE, nonce |-> EmptyString]

\* ------------------------------------------------------------------------
\* fetchNonce as it would be if it took a nonce from a 200 response only.
\* ------------------------------------------------------------------------
fetchNonceChecksStatus(h) ==
    IF ~h.ok
    THEN [nonce |-> EmptyString, err |-> Nil]
    ELSE IF h.nonce = EmptyString \/ h.code # 200
         THEN [nonce |-> EmptyString, err |-> ErrNonceNotFound]
         ELSE [nonce |-> h.nonce, err |-> Nil]

\* ------------------------------------------------------------------------
\* fetchNonce (src/acme.go:352-363)
\* ------------------------------------------------------------------------
fetchNonce(h) ==
    IF ~h.ok
    THEN [nonce |-> EmptyString, err |-> Nil]               \* return "", nil
    ELSE IF h.nonce = EmptyString
         THEN [nonce |-> EmptyString, err |-> ErrNonceNotFound]
         ELSE [nonce |-> h.nonce, err |-> Nil]

\* ------------------------------------------------------------------------
\* Client.PostJWS (src/acme.go:271-285): h is what the HEAD gave, signOK
\* whether jwsEncodeJSON and http.NewRequest succeeded, p what c.Do gives
\* if the POST is sent.
\* sent tells whether the POST went out, nonce the nonce it carried.
\* ------------------------------------------------------------------------
NoResponse == [code |-> 0]

PostJWS(h, signOK, p) ==
    LET n == fetchNonce(h) IN
    IF n.err # Nil
    THEN [sent |-> FALSE, nonce |-> EmptyString, res |-> NoResponse, err |-> n.err]
    ELSE IF ~signOK
    THEN [sent |-> FALSE, nonce |-> EmptyString, res |-> NoResponse, err |-> ErrSign]
    ELSE IF p.err # Nil
    THEN [sent |-> TRUE, nonce |-> n.nonce, res |-> NoResponse, err |-> p.err]
    ELSE [sent |-> TRUE, nonce |-> n.nonce, res |-> p.res, err |-> Nil]

\* What c.Do can give for a bare POST, when only the status code matters.
PlainPostOutcomes ==
    { [err |-> ErrTransport, res |-> NoResponse] }
    \cup { [err |-> Nil, res |-> [code |-> 201]] }

\* ------------------------------------------------------------------------
\* Spec: goroutines calling PostJWS on one Client
\* ------------------------------------------------------------------------
IdleThread == [pc |-> "idle", call |-> 0, url |-> "new-authz", head |-> NoHead,
               fetched |-> [nonce |-> EmptyString, err |-> Nil], err |-> Nil]

InitPost ==
    /\ th = [g \in Goroutines |-> IdleThread]
    /\ wire = << >>
    /\ calls = 0

\* A goroutine enters PostJWS(url, body).
CallPostJWS(g) ==
    /\ th[g].pc \in {"idle", "done"}
    /\ calls < MaxCalls
    /\ \E u \in URLs :
         th' = [th EXCEPT ![g] = [IdleThread EXCEPT !.pc = "fetchNonce",
                                                    !.call = calls + 1,
                                                    !.url = u]]
    /\ calls' = calls + 1
    /\ UNCHANGED <<wire, certVars, libVars>>

\* The nonces earlier HEADs of this Client were given.
SeenNonces == { wire[i].nonce : i \in { k \in DOMAIN wire : wire[k].method = "HEAD"
                                                         /\ wire[k].nonce # EmptyString } }

\* fetchNonce as it would be if the Client kept the last nonce it was given
\* and asked for a new one only when it had none.
HeadRequestCached(g) ==
    /\ th[g].pc = "fetchNonce"
    /\ IF SeenNonces = {}
       THEN \E h \in HeadOutcomes(ToString(Len(wire) + 1)) :
              /\ wire' = Append(wire, [call |-> th[g].call, method |-> "HEAD",
                                       url |-> th[g].url, ok |-> h.ok,
                                       nonce |-> h.nonce])
              /\ th' = [th EXCEPT ![g].pc = "post", ![g].head = h,
                                  ![g].fetched = fetchNonce(h)]
       ELSE \E n \in SeenNonces :
              /\ wire' = wire
              /\ th' = [th EXCEPT ![g].pc = "post",
                                  ![g].head = [ok |-> TRUE, nonce |-> n],
                                  ![g].fetched = [nonce |-> n, err |-> Nil]]
    /\ UNCHANGED <<calls, certVars, libVars>>

\* The HEAD of fetchNonce: the request goes out and the call blocks on it.
\* The CA hands out a nonce no earlier HEAD was given.
HeadRequest(g) ==
    /\ th[g].pc = "fetchNonce"
    /\ \E h \in HeadOutcomes(ToString(Len(wire) + 1)) :
         /\ wire' = Append(wire, [call |-> th[g].call, method |-> "HEAD",
                                  url |-> th[g].url, ok |-> h.ok,
                                  nonce |-> h.nonce])
         /\ th' = [th EXCEPT ![g].pc = "post", ![g].head = h,
                             ![g].fetched = fetchNonce(h)]
    /\ UNCHANGED <<calls, certVars, libVars>>

\* The rest of PostJWS: the check of fetchNonce's error, jwsEncodeJSON and
\* c.Do(req).
PostRequest(g) ==
    /\ th[g].pc = "post"
    /\ \E signOK \in BOOLEAN, p \in PlainPostOutcomes :
         LET r == PostJWS(th[g].head, signOK, p) IN
         /\ wire' = IF r.sent
                    THEN Append(wire, [call |-> th[g].call, method |-> "POST",
                                       url |-> th[g].url, ok |-> TRUE,   \* its answer is not kept
                                       nonce |-> r.nonce])
                    ELSE wire
         /\ th' = [th EXCEPT ![g].pc = "done", ![g].err = r.err]
    /\ UNCHANGED <<calls, certVars, libVars>>

PostNext == \E g \in Goroutines : CallPostJWS(g) \/ HeadRequest(g) \/ PostRequest(g)

\* ------------------------------------------------------------------------
\* The library calls of the cert command, each as a function of what the
\* network gives: h the HEAD, signOK the signing, p the POST (or the GET).
\* ------------------------------------------------------------------------
ErrACME == "acme error"              \* an *Error made by responseError
ErrDecode == "Decode"
ErrUnexpectedStatus == "Unexpected status"
ErrNoChallenge == "no supported challenge found"
ErrListen == "listen"
ErrManual == "manual challenge"
ErrAccept == "accept challenge"
ErrCouldNotAuthorize == "could not authorize"
ErrReadAll == "ReadAll"
ErrParseCertificate == "ParseCertificate"

StatusPending == "pending"
StatusValid == "valid"
StatusInvalid == "invalid"

NoID == [type |-> "", value |-> ""]
NoAuthz == [status |-> "", challenges |-> << >>, uri |-> "", identifier |-> NoID,
            combinations |-> << >>]
NoBody == [code |-> 0, decodeOK |-> FALSE, status |-> "", challenges |-> << >>,
           location |-> "", identifier |-> NoID, combinations |-> << >>]
NoPost == [err |-> Nil, res |-> NoBody]

\* The types of the challenges a CA may offer, in the listed order.
ChallengeTypeLists ==
    { << >>, <<"http-01">>, <<"tls-sni-01">>, <<"tls-sni-01", "http-01">>,
      <<"http-01", "tls-sni-01">>, <<"tls-sni-01", "http-01", "http-01">> }

\* Challenge (src/acme.go:73-78): the i-th challenge of a list, of type t,
\* with the URI and the token the CA gave it.
Challenge(t, i) ==
    [type |-> t, uri |-> "challenge-uri-" \o ToString(i),
     token |-> "token" \o ToString(i)]

\* The challenge lists a CA may offer.
ChallengeLists ==
    { [i \in 1..Len(ts) |-> Challenge(ts[i], i)] : ts \in ChallengeTypeLists }

\* The identifiers and the combinations (lists of indices into the
\* challenge list, from 0) the body of an authorization may hold.
Identifiers ==
    { [type |-> "dns", value |-> "example.com"],
      [type |-> "dns", value |-> "www.example.com"] }
CombinationLists == { << >>, << <<0>> >>, << <<0>>, <<1>> >> }

\* What c.Do can give for the new-authz POST.
AuthorizeOutcomes ==
    { [err |-> ErrTransport, res |-> NoBody] }
    \cup { [err |-> Nil, res |-> [NoBody EXCEPT !.code = 400]] }
    \cup { [err |-> Nil, res |-> [NoBody EXCEPT !.code = 201, !.location = "authz-uri"]] }
    \cup { [err |-> Nil, res |-> [code |-> 201, decodeOK |-> TRUE, status |-> s,
                                  challenges |-> cs, location |-> "authz-uri",
                                  identifier |-> id, combinations |-> cb]] :
             s \in {StatusPending, StatusValid, StatusInvalid, ""},
             cs \in ChallengeLists, id \in Identifiers, cb \in CombinationLists }

\* Authorize as it would be if a new authorization that is already valid
\* were let through.
AuthorizeAcceptsValid(h, signOK, p) ==
    LET r == PostJWS(h, signOK, p) IN
    IF r.err # Nil THEN [sent |-> r.sent, az |-> NoAuthz, err |-> r.err]
    ELSE IF r.res.code # 201 THEN [sent |-> r.sent, az |-> NoAuthz, err |-> ErrACME]
    ELSE IF ~r.res.decodeOK THEN [sent |-> r.sent, az |-> NoAuthz, err |-> ErrDecode]
    ELSE IF r.res.status \notin {StatusPending, StatusValid}
    THEN [sent |-> r.sent, az |-> NoAuthz, err |-> ErrUnexpectedStatus]
    ELSE [sent |-> r.sent,
          az |-> [status |-> r.res.status, challenges |-> r.res.challenges,
                  uri |-> r.res.location, identifier |-> r.res.identifier,
                  combinations |-> r.res.combinations],
          err |-> Nil]

\* Authorize as it would be if it kept the challenges of the body but not
\* their combinations.
AuthorizeDropsCombinations(h, signOK, p) ==
    LET r == PostJWS(h, signOK, p) IN
    IF r.err # Nil THEN [sent |-> r.sent, az |-> NoAuthz, err |-> r.err]
    ELSE IF r.res.code # 201 THEN [sent |-> r.sent, az |-> NoAuthz, err |-> ErrACME]
    ELSE IF ~r.res.decodeOK THEN [sent |-> r.sent, az |-> NoAuthz, err |-> ErrDecode]
    ELSE IF r.res.status # StatusPending
    THEN [sent |-> r.sent, az |-> NoAuthz, err |-> ErrUnexpectedStatus]
    ELSE [sent |-> r.sent,
          az |-> [status |-> r.res.status, challenges |-> r.res.challenges,
                  uri |-> r.res.location, identifier |-> r.res.identifier,
                  combinations |-> << >>],
          err |-> Nil]

\* The request Authorize builds for a domain (src/acme.go:191-197)
AuthorizeRequest(domain) ==
    [resource |-> "new-authz", identifier |-> [type |-> "dns", value |-> domain]]

\* Client.Authorize (src/acme.go:190-216)
Authorize(h, signOK, p) ==
    LET r == PostJWS(h, signOK, p) IN
    IF r.err # Nil THEN [sent |-> r.sent, az |-> NoAuthz, err |-> r.err]
    ELSE IF r.res.code # 201 THEN [sent |-> r.sent, az |-> NoAuthz, err |-> ErrACME]
    ELSE IF ~r.res.decodeOK THEN [sent |-> r.sent, az |-> NoAuthz, err |-> ErrDecode]
    ELSE IF r.res.status # StatusPending
    THEN [sent |-> r.sent, az |-> NoAuthz, err |-> ErrUnexpectedStatus]
    ELSE [sent |-> r.sent,
          az |-> [status |-> r.res.status, challenges |-> r.res.challenges,
                  uri |-> r.res.location, identifier |-> r.res.identifier,
                  combinations |-> r.res.combinations],
          err |-> Nil]

\* What c.Do can give for the POST to a challenge URI.
AcceptOutcomes ==
    { [err |-> ErrTransport, res |-> NoBody] }
    \cup { [err |-> Nil, res |-> [NoBody EXCEPT !.code = c]] : c \in {200, 202, 400} }
    \cup { [err |-> Nil, res |-> [NoBody EXCEPT !.code = c, !.decodeOK = TRUE,
                                                !.status = s]] :
             c \in {200, 202}, s \in {StatusPending, StatusValid, StatusInvalid} }

NoChallenge == [status |-> ""]

\* The account key (Client.Key), by the two members of its public part as
\* the JWK holds them.
AccountKey == [n |-> "modulus", e |-> "AQAB"]

\* sha256.Sum256 and base64.RawURLEncoding.EncodeToString, as functions
\* that give different results for different arguments.
SHA256(str) == "sha256(" \o str \o ")"
Base64URL(bytes) == "b64(" \o bytes \o ")"

\* jwkThumbprint (src/jws.go:63-71)
jwkThumbprint(key) ==
    Base64URL(SHA256("{\"e\":\"" \o key.e \o "\",\"kty\":\"RSA\",\"n\":\""
                     \o key.n \o "\"}"))

\* keyAuth as it would be if it gave the token alone.
keyAuthTokenOnly(pub, token) == token

\* keyAuth (src/acme.go:381-384)
keyAuth(pub, token) == token \o "." \o jwkThumbprint(pub)

\* The request Accept builds for a challenge, and the URL it posts it to
\* (src/acme.go:242-251)
AcceptRequest(c, key) ==
    [url |-> c.uri,
     payload |-> [resource |-> "challenge", type |-> c.type,
                  keyAuthorization |-> keyAuth(key, c.token)]]
NoAcceptRequest ==
    [url |-> "", payload |-> [resource |-> "", type |-> "", keyAuthorization |-> ""]]

\* Accept as it would be if only 200 OK counted as the CA's acceptance.
AcceptOnly200(h, signOK, p) ==
    LET r == PostJWS(h, signOK, p) IN
    IF r.err # Nil THEN [sent |-> r.sent, code |-> 0, rc |-> NoChallenge, err |-> r.err]
    ELSE IF r.res.code # 200
    THEN [sent |-> r.sent, code |-> r.res.code, rc |-> NoChallenge, err |-> ErrACME]
    ELSE IF ~r.res.decodeOK
    THEN [sent |-> r.sent, code |-> r.res.code, rc |-> NoChallenge, err |-> ErrDecode]
    ELSE [sent |-> r.sent, code |-> r.res.code, rc |-> [status |-> r.res.status],
          err |-> Nil]

\* Client.Accept (src/acme.go:241-267)
Accept(h, signOK, p) ==
    LET r == PostJWS(h, signOK, p) IN
    IF r.err # Nil THEN [sent |-> r.sent, code |-> 0, rc |-> NoChallenge, err |-> r.err]
    ELSE IF r.res.code # 200 /\ r.res.code # 202
    THEN [sent |-> r.sent, code |-> r.res.code, rc |-> NoChallenge, err |-> ErrACME]
    ELSE IF ~r.res.decodeOK
    THEN [sent |-> r.sent, code |-> r.res.code, rc |-> NoChallenge, err |-> ErrDecode]
    ELSE [sent |-> r.sent, code |-> r.res.code, rc |-> [status |-> r.res.status],
          err |-> Nil]

\* What c.Get can give for the authorization URI while the CA holds the
\* authorization in status s.
GetAuthzOutcomes(s) ==
    { [err |-> ErrTransport, res |-> NoBody] }
    \cup { [err |-> Nil, res |-> [NoBody EXCEPT !.code = c]] : c \in {200, 500} }
    \cup { [err |-> Nil, res |-> [NoBody EXCEPT !.code = 200, !.decodeOK = TRUE,
                                                !.status = s]] }

\* Client.GetAuthz (src/acme.go:221-235); isNil: the *Authorization is nil.
GetAuthz(g) ==
    IF g.err # Nil THEN [isNil |-> TRUE, az |-> NoAuthz, err |-> g.err]
    ELSE IF g.res.code # 200 THEN [isNil |-> TRUE, az |-> NoAuthz, err |-> ErrACME]
    ELSE IF ~g.res.decodeOK THEN [isNil |-> TRUE, az |-> NoAuthz, err |-> ErrDecode]
    ELSE [isNil |-> FALSE,
          az |-> [status |-> g.res.status, challenges |-> g.res.challenges,
                  uri |-> "authz-uri", identifier |-> g.res.identifier,
                  combinations |-> g.res.combinations],
          err |-> Nil]

\* What c.Do can give for the new-cert POST: body is what the response
\* carries, chunked whether it comes without a Content-Length header
\* (Transfer-Encoding: chunked).
NoCertBody == [code |-> 0, body |-> "", chunked |-> FALSE, location |-> ""]
CreateCertOutcomes ==
    { [err |-> ErrTransport, res |-> NoCertBody] }
    \cup { [err |-> Nil, res |-> [code |-> c, body |-> b, chunked |-> ch,
                                  location |-> l]] :
             c \in {201, 400}, b \in {"", "der", "unreadable", "garbage"},
             ch \in BOOLEAN, l \in {"", "cert-url"} }

\* res.ContentLength as net/http sets it: -1 when the length is unknown, the
\* number of bytes of the body otherwise (1 stands for any positive number).
ContentLength(res) ==
    IF res.chunked THEN -1 ELSE IF res.body = "" THEN 0 ELSE 1

\* Client.CreateCert (src/acme.go:119-158); cert "" is the nil certificate.
CreateCert(h, signOK, p) ==
    LET r == PostJWS(h, signOK, p) IN
    IF r.err # Nil THEN [sent |-> r.sent, cert |-> "", certURL |-> "", err |-> r.err]
    ELSE IF r.res.code # 201
    THEN [sent |-> r.sent, cert |-> "", certURL |-> "", err |-> ErrACME]
    ELSE IF ContentLength(r.res) > 0
    THEN IF r.res.body = "unreadable"
         THEN [sent |-> r.sent, cert |-> "", certURL |-> "", err |-> ErrReadAll]
         ELSE IF r.res.body = "garbage"
         THEN [sent |-> r.sent, cert |-> "", certURL |-> "",
               err |-> ErrParseCertificate]
         ELSE [sent |-> r.sent, cert |-> r.res.body, certURL |-> r.res.location,
               err |-> Nil]
    ELSE [sent |-> r.sent, cert |-> "", certURL |-> r.res.location, err |-> Nil]

\* What goacme.FetchCert can give to pollCert: the certificate, a RetryError
\* carrying a duration (seconds), or any other error.
FetchCertOutcomes ==
    { [kind |-> "cert", dur |-> 0], [kind |-> "hard", dur |-> 0] }
    \cup { [kind |-> "retry", dur |-> d] : d \in {1, 5} }

\* ------------------------------------------------------------------------
\* main.go: the exit status
\* ------------------------------------------------------------------------
\* setExitStatus (src/cmd/goacme/main.go:84-90)
setExitStatus(cur, n) == IF cur < n THEN n ELSE cur

\* ------------------------------------------------------------------------
\* CertSpec: the cert command
\* ------------------------------------------------------------------------
Domains == 1..NumDomains

NoAuthorize == [req |-> AuthorizeRequest(""), resp |-> NoPost, sent |-> FALSE,
               az |-> NoAuthz, err |-> Nil]

\* The domains on the command line (args of runCert), by their position.
DomainName(d) == IF d = 1 THEN "example.com" ELSE "www.example.com"
NoAccept == [req |-> NoAcceptRequest, resp |-> NoPost, sent |-> FALSE, code |-> 0,
             rc |-> NoChallenge, err |-> Nil]
NoPoll == [resp |-> NoPost, isNil |-> TRUE, az |-> NoAuthz, err |-> Nil]
NoCreateCert == [resp |-> [err |-> Nil, res |-> NoCertBody], sent |-> FALSE,
                 cert |-> "", certURL |-> "", err |-> Nil]
NoFetch == [kind |-> "none", dur |-> 0, url |-> ""]

InitCert ==
    /\ cpc = "start"
    /\ certManual = FALSE
    /\ di = 0
    /\ z = NoAuthorize
    /\ chal = 0
    /\ acc = NoAccept
    /\ caStatus = "none"
    /\ lastPoll = NoPoll
    /\ gotValid = {}
    /\ authzOK = {}
    /\ authzErr = Nil
    /\ listening = {}
    /\ exitStatus = 0
    /\ newCertSent = 0
    /\ cc = NoCreateCert
    /\ lastFetch = NoFetch
    /\ sleepDur = 0
    /\ certWritten = FALSE

\* fatalf (src/cmd/goacme/main.go:103-106): errorf, then os.Exit(exitStatus).
\* The changes of cpc and exitStatus it makes.
fatalf ==
    /\ exitStatus' = setExitStatus(exitStatus, 1)
    /\ cpc' = "exited"

\* runCert up to the authz loop: the arguments, the config, the keys, the CSR.
RunCertSetup ==
    /\ cpc = "start"
    /\ \E manual \in BOOLEAN, setupOK \in BOOLEAN :
         /\ certManual' = manual
         /\ IF setupOK
            THEN /\ cpc' = "authorize"
                 /\ di' = 1
                 /\ UNCHANGED exitStatus
            ELSE /\ fatalf
                 /\ UNCHANGED di
    /\ UNCHANGED <<z, chal, acc, caStatus, lastPoll, gotValid, authzOK, authzErr,
                   listening, newCertSent, cc, lastFetch, sleepDur, certWritten,
                   postVars, libVars>>

\* authz as it would be if it returned without closing the listener.
AuthzReturnsKeepsListener(err) ==
    /\ UNCHANGED listening
    /\ authzErr' = err
    /\ IF err # Nil
       THEN /\ fatalf
            /\ UNCHANGED <<di, authzOK>>
       ELSE /\ authzOK' = authzOK \cup {di}
            /\ UNCHANGED exitStatus
            /\ IF di < NumDomains
               THEN di' = di + 1 /\ cpc' = "authorize"
               ELSE di' = di /\ cpc' = "createCert"

\* authz returns err to the loop of runCert (part_000:118-122): the deferred
\* ln.Close() runs, then runCert goes on to the next domain or to the
\* certificate, or calls fatalf.
AuthzReturns(err) ==
    /\ listening' = listening \ {di}
    /\ authzErr' = err
    /\ IF err # Nil
       THEN /\ fatalf
            /\ UNCHANGED <<di, authzOK>>
       ELSE /\ authzOK' = authzOK \cup {di}
            /\ UNCHANGED exitStatus
            /\ IF di < NumDomains
               THEN di' = di + 1 /\ cpc' = "authorize"
               ELSE di' = di /\ cpc' = "createCert"

\* The choice of the challenge as it would be if it took the first of the
\* list, whatever its type.
FirstChallenge(cs) == IF Len(cs) > 0 THEN 1 ELSE 0

\* The first http-01 challenge of the list (part_000:149-155), 0 if none.
FirstHTTP01(cs) ==
    IF \E i \in 1..Len(cs) : cs[i].type = "http-01"
    THEN CHOOSE i \in 1..Len(cs) :
           /\ cs[i].type = "http-01"
           /\ \A j \in 1..(i - 1) : cs[j].type # "http-01"
    ELSE 0

\* authz: client.Authorize and the choice of the challenge (part_000:145-158)
AuthorizeStep ==
    /\ cpc = "authorize"
    /\ \E h \in HeadOutcomes("n"), signOK \in BOOLEAN, p \in AuthorizeOutcomes :
         LET r == Authorize(h, signOK, p)
             c == FirstHTTP01(r.az.challenges) IN
         /\ z' = [req |-> AuthorizeRequest(DomainName(di)),
                  resp |-> IF r.sent THEN p ELSE NoPost, sent |-> r.sent,
                  az |-> r.az, err |-> r.err]
         /\ acc' = NoAccept
         /\ lastPoll' = NoPoll
         /\ IF r.err # Nil
            THEN /\ AuthzReturns(r.err)
                 /\ chal' = 0
                 /\ caStatus' = "none"
            ELSE /\ caStatus' = r.az.status
                 /\ chal' = c
                 /\ IF c = 0
                    THEN AuthzReturns(ErrNoChallenge)
                    ELSE /\ cpc' = "listen"
                         /\ UNCHANGED <<di, authzOK, authzErr, listening, exitStatus>>
    /\ UNCHANGED <<certManual, gotValid, newCertSent, cc, lastFetch, sleepDur,
                   certWritten, postVars, libVars>>

\* authz: net.Listen, then the manual instructions or the local server
\* (part_000:160-185)
ListenStep ==
    /\ cpc = "listen"
    /\ \E listenOK \in BOOLEAN, manualOK \in BOOLEAN :
         IF ~listenOK
         THEN AuthzReturns(ErrListen)
         ELSE IF certManual /\ ~manualOK
         THEN AuthzReturns(ErrManual)
         ELSE /\ listening' = listening \cup {di}
              /\ cpc' = "accept"
              /\ UNCHANGED <<di, authzOK, authzErr, exitStatus>>
    /\ UNCHANGED <<certManual, z, chal, acc, caStatus, lastPoll, gotValid,
                   newCertSent, cc, lastFetch, sleepDur, certWritten, postVars, libVars>>

\* authz as it would be if it went on to poll whatever Accept returned.
AcceptStepIgnoresError ==
    /\ cpc = "accept"
    /\ \E h \in HeadOutcomes("n"), signOK \in BOOLEAN, p \in AcceptOutcomes :
         LET r == Accept(h, signOK, p) IN
         /\ acc' = [req |-> AcceptRequest(z.az.challenges[chal], AccountKey),
                    resp |-> IF r.sent THEN p ELSE NoPost, sent |-> r.sent,
                    code |-> r.code, rc |-> r.rc, err |-> r.err]
         /\ cpc' = "poll"
         /\ UNCHANGED <<di, authzOK, authzErr, listening, exitStatus>>
    /\ UNCHANGED <<certManual, z, chal, caStatus, lastPoll, gotValid,
                   newCertSent, cc, lastFetch, sleepDur, certWritten, postVars, libVars>>

\* authz as it would be if it took the challenge status of Accept's answer
\* for the end of the authorization.
AcceptStepInfers ==
    /\ cpc = "accept"
    /\ \E h \in HeadOutcomes("n"), signOK \in BOOLEAN, p \in AcceptOutcomes :
         LET r == Accept(h, signOK, p) IN
         /\ acc' = [req |-> AcceptRequest(z.az.challenges[chal], AccountKey),
                    resp |-> IF r.sent THEN p ELSE NoPost, sent |-> r.sent,
                    code |-> r.code, rc |-> r.rc, err |-> r.err]
         /\ IF r.err # Nil
            THEN AuthzReturns(ErrAccept)
            ELSE IF r.rc.status = StatusValid
            THEN AuthzReturns(Nil)
            ELSE /\ cpc' = "poll"
                 /\ UNCHANGED <<di, authzOK, authzErr, listening, exitStatus>>
    /\ UNCHANGED <<certManual, z, chal, caStatus, lastPoll, gotValid,
                   newCertSent, cc, lastFetch, sleepDur, certWritten, postVars, libVars>>

\* authz: client.Accept (part_000:187-189)
AcceptStep ==
    /\ cpc = "accept"
    /\ \E h \in HeadOutcomes("n"), signOK \in BOOLEAN, p \in AcceptOutcomes :
         LET r == Accept(h, signOK, p) IN
         /\ acc' = [req |-> AcceptRequest(z.az.challenges[chal], AccountKey),
                    resp |-> IF r.sent THEN p ELSE NoPost, sent |-> r.sent,
                    code |-> r.code, rc |-> r.rc, err |-> r.err]
         /\ IF r.err # Nil
            THEN AuthzReturns(ErrAccept)
            ELSE /\ cpc' = "poll"
                 /\ UNCHANGED <<di, authzOK, authzErr, listening, exitStatus>>
    /\ UNCHANGED <<certManual, z, chal, caStatus, lastPoll, gotValid,
                   newCertSent, cc, lastFetch, sleepDur, certWritten, postVars, libVars>>

\* The CA settles the authorization: pending becomes valid or invalid.
CADecides ==
    /\ cpc \in {"listen", "accept", "poll", "sleep"}
    /\ caStatus = StatusPending
    /\ \E s \in {StatusValid, StatusInvalid} : caStatus' = s
    /\ UNCHANGED <<cpc, certManual, di, z, chal, acc, lastPoll, gotValid, authzOK,
                   authzErr, listening, exitStatus, newCertSent, cc, lastFetch,
                   sleepDur, certWritten, postVars, libVars>>

\* The a.Status of the loop with a nil a: a nil pointer dereference. The
\* deferred ln.Close() runs and the Go runtime ends the process with status 2.
NilDereference ==
    /\ cpc' = "panicked"
    /\ exitStatus' = 2
    /\ listening' = listening \ {di}
    /\ UNCHANGED <<di, authzOK, authzErr>>

\* The polling loop as it would be if it took 'invalid' for not yet valid.
GetAuthzStepRetriesInvalid ==
    /\ cpc = "poll"
    /\ \E g \in GetAuthzOutcomes(caStatus) :
         LET a == GetAuthz(g) IN
         /\ lastPoll' = [resp |-> g, isNil |-> a.isNil, az |-> a.az, err |-> a.err]
         /\ gotValid' = IF g.err = Nil /\ g.res.code = 200 /\ g.res.decodeOK
                           /\ g.res.status = StatusValid
                        THEN gotValid \cup {di}
                        ELSE gotValid
         /\ IF a.isNil
            THEN NilDereference
            ELSE IF a.az.status # StatusValid
            THEN /\ cpc' = "sleep"
                 /\ UNCHANGED <<di, authzOK, authzErr, listening, exitStatus>>
            ELSE AuthzReturns(Nil)
    /\ UNCHANGED <<certManual, z, chal, acc, caStatus, newCertSent, cc, lastFetch,
                   sleepDur, certWritten, postVars, libVars>>

\* authz: one round of the polling loop, up to its sleep (part_000:190-204)
GetAuthzStep ==
    /\ cpc = "poll"
    /\ \E g \in GetAuthzOutcomes(caStatus) :
         LET a == GetAuthz(g) IN
         /\ lastPoll' = [resp |-> g, isNil |-> a.isNil, az |-> a.az, err |-> a.err]
         /\ gotValid' = IF g.err = Nil /\ g.res.code = 200 /\ g.res.decodeOK
                           /\ g.res.status = StatusValid
                        THEN gotValid \cup {di}
                        ELSE gotValid
         /\ IF a.isNil
            THEN NilDereference
            ELSE IF a.az.status = StatusInvalid
            THEN AuthzReturns(ErrCouldNotAuthorize)
            ELSE IF a.az.status # StatusValid
            THEN /\ cpc' = "sleep"
                 /\ UNCHANGED <<di, authzOK, authzErr, listening, exitStatus>>
            ELSE AuthzReturns(Nil)
    /\ UNCHANGED <<certManual, z, chal, acc, caStatus, newCertSent, cc, lastFetch,
                   sleepDur, certWritten, postVars, libVars>>

\* authz: time.Sleep(3s), then the next round (part_000:200-201)
SleepStep ==
    /\ cpc = "sleep"
    /\ cpc' = "poll"
    /\ UNCHANGED <<certManual, di, z, chal, acc, caStatus, lastPoll, gotValid,
                   authzOK, authzErr, listening, exitStatus, newCertSent, cc,
                   lastFetch, sleepDur, certWritten, postVars, libVars>>

\* runCert: client.CreateCert (reg.go:203-210)
CreateCertStep ==
    /\ cpc = "createCert"
    /\ \E h \in HeadOutcomes("n"), signOK \in BOOLEAN, p \in CreateCertOutcomes :
         LET r == CreateCert(h, signOK, p) IN
         /\ cc' = [resp |-> IF r.sent THEN p ELSE NoCreateCert.resp, sent |-> r.sent,
                   cert |-> r.cert, certURL |-> r.certURL, err |-> r.err]
         /\ newCertSent' = newCertSent + (IF r.sent THEN 1 ELSE 0)
         /\ IF r.err # Nil
            THEN fatalf
            ELSE /\ cpc' = IF r.cert = "" THEN "pollCert" ELSE "writeCert"
                 /\ UNCHANGED exitStatus
    /\ UNCHANGED <<certManual, di, z, chal, acc, caStatus, lastPoll, gotValid,
                   authzOK, authzErr, listening, lastFetch, sleepDur, certWritten,
                   postVars, libVars>>

\* pollCert: one FetchCert and what the loop does with it (reg.go:222-232)
PollCertStep ==
    /\ cpc = "pollCert"
    /\ \E f \in FetchCertOutcomes :
         /\ lastFetch' = [kind |-> f.kind, dur |-> f.dur, url |-> cc.certURL]
         /\ IF f.kind = "cert"
            THEN cpc' = "writeCert" /\ sleepDur' = 0
            ELSE /\ sleepDur' = IF f.kind = "retry" THEN f.dur ELSE 3
                 /\ cpc' = "certSleep"
    /\ UNCHANGED <<certManual, di, z, chal, acc, caStatus, lastPoll, gotValid,
                   authzOK, authzErr, listening, exitStatus, newCertSent, cc,
                   certWritten, postVars, libVars>>

\* pollCert: time.Sleep(d), then the next FetchCert (reg.go:232-233)
CertSleepStep ==
    /\ cpc = "certSleep"
    /\ cpc' = "pollCert"
    /\ sleepDur' = 0
    /\ UNCHANGED <<certManual, di, z, chal, acc, caStatus, lastPoll, gotValid,
                   authzOK, authzErr, listening, exitStatus, newCertSent, cc,
                   lastFetch, certWritten, postVars, libVars>>

\* runCert: the certificate file; runCert returns and main calls exit()
\* (reg.go:211-220, main.go:127-128)
WriteCertStep ==
    /\ cpc = "writeCert"
    /\ \E writeOK \in BOOLEAN :
         IF writeOK
         THEN certWritten' = TRUE /\ cpc' = "exited" /\ UNCHANGED exitStatus
         ELSE fatalf /\ UNCHANGED certWritten
    /\ UNCHANGED <<certManual, di, z, chal, acc, caStatus, lastPoll, gotValid,
                   authzOK, authzErr, listening, newCertSent, cc, lastFetch,
                   sleepDur, postVars, libVars>>

CertProgram ==
    \/ RunCertSetup
    \/ AuthorizeStep
    \/ ListenStep
    \/ AcceptStep
    \/ GetAuthzStep
    \/ SleepStep
    \/ CreateCertStep
    \/ PollCertStep
    \/ CertSleepStep
    \/ WriteCertStep

CertNext == CertProgram \/ CADecides

\* ------------------------------------------------------------------------
\* ErrSpec: responseError, applied to the responses of a CA
\* ------------------------------------------------------------------------
\* The error type URNs (src/errors.go:20-33)
errtTLS == "urn:acme:error:tls"
errtMalformed == "urn:acme:error:malformed"
errtCustom == "urn:acme:error:custom"   \* a URN the package does not know

\* The predefined errors (src/errors.go:36-47), by their URN as acmeErrors
\* maps them (src/errors.go:50-61).
ErrTLS == [code |-> 500, type |-> errtTLS, detail |-> "TLS error during DV"]
ErrMalformed ==
    [code |-> 400, type |-> errtMalformed, detail |-> "Request message is malformed"]
acmeErrors == (errtTLS :> ErrTLS) @@ (errtMalformed :> ErrMalformed)

\* The status line the server sends with a status code (resp.Status).
StatusLine(code) ==
    IF code = 400 THEN "400 Bad Request"
    ELSE IF code = 409 THEN "409 Conflict"
    ELSE "500 Internal"

\* The responses handed to responseError. json: the body unmarshals into an
\* Error; raw: the body as text when it does not; hasStatus, jstatus, type,
\* detail: the members of the JSON object.
NoRes == [code |-> 0, status |-> "", json |-> FALSE, raw |-> "",
          hasStatus |-> FALSE, jstatus |-> 0, type |-> "", detail |-> ""]
ErrorCodes == {400, 409, 500}
ErrorResponses ==
    { [NoRes EXCEPT !.code = c, !.status = StatusLine(c), !.raw = b] :
        c \in ErrorCodes, b \in {"", "<html>oops</html>"} }
    \cup { [code |-> c, status |-> StatusLine(c), json |-> TRUE, raw |-> "",
            hasStatus |-> js # 0, jstatus |-> js, type |-> t, detail |-> d] :
            c \in ErrorCodes, js \in {0, 409, 500},
            t \in {"", errtTLS, errtMalformed, errtCustom},
            d \in {"", "TLS err", "Already in use"} }

\* responseError as it would be if it kept the empty body as the detail.
responseErrorRawDetail(resp) ==
    IF ~resp.json
    THEN [code |-> resp.code, type |-> "", detail |-> resp.raw]
    ELSE LET e == [code |-> IF resp.hasStatus THEN resp.jstatus ELSE resp.code,
                   type |-> resp.type, detail |-> resp.detail] IN
         IF e.type \in DOMAIN acmeErrors THEN acmeErrors[e.type] ELSE e

\* responseError (src/errors.go:78-92)
responseError(resp) ==
    IF ~resp.json
    THEN [code |-> resp.code, type |-> "",
          detail |-> IF resp.raw = "" THEN resp.status ELSE resp.raw]
    ELSE LET e == [code |-> IF resp.hasStatus THEN resp.jstatus ELSE resp.code,
                   type |-> resp.type, detail |-> resp.detail] IN
         IF e.type \in DOMAIN acmeErrors THEN acmeErrors[e.type] ELSE e

\* responseError (src/acme.go:400-411); its Error has no "status" member.
responseError0(resp) ==
    IF resp.json
    THEN [code |-> resp.code, type |-> resp.type, detail |-> resp.detail]
    ELSE [code |-> resp.code, type |-> "",
          detail |-> IF resp.raw = "" THEN resp.status ELSE resp.raw]

InitErr ==
    /\ reRes = NoRes
    /\ reErr = [code |-> 0, type |-> "", detail |-> ""]
    /\ reErr0 = [code |-> 0, type |-> "", detail |-> ""]

\* A response that is not a success is turned into an *Error.
CallResponseError ==
    /\ \E resp \in ErrorResponses :
         /\ reRes' = resp
         /\ reErr' = responseError(resp)
         /\ reErr0' = responseError0(resp)
    /\ UNCHANGED <<postVars, certVars, regVars, callVars>>

ErrNext == CallResponseError

\* ------------------------------------------------------------------------
\* RegSpec: Register, GetReg and UpdateReg on the caller's Account
\* ------------------------------------------------------------------------
\* Account (src/acme.go:37-62), the fields the registration calls touch;
\* ZeroAccount is &Account{}.
ZeroAccount == [uri |-> "", contact |-> << >>, agreement |-> "", terms |-> "",
                authz |-> ""]
\* The Contact and AgreedTerms a caller, or a CA, gives an account.
CallerAccounts ==
    { [contact |-> << >>, agreement |-> ""],
      [contact |-> <<"mailto:a@example.org">>, agreement |-> ""],
      [contact |-> <<"mailto:a@example.org">>, agreement |-> "terms-v1"] }

\* The bodies of a registration response: empty, not JSON, a JSON object
\* whose "agreement" member is of the wrong type ("partial"), or a
\* registration object.
RegBodies ==
    { [kind |-> k, contact |-> << >>, agreement |-> ""] : k \in {"empty", "garbage"} }
    \cup { [kind |-> "partial", contact |-> <<"mailto:a@example.org">>,
            agreement |-> ""] }
    \cup { [kind |-> "object", contact |-> e.contact, agreement |-> e.agreement] :
             e \in CallerAccounts }

NoRegBody == [kind |-> "empty", contact |-> << >>, agreement |-> ""]
NoRegResponse == [code |-> 0, body |-> NoRegBody, location |-> "", linkTerms |-> "",
                  linkNext |-> ""]
RegSuccessCodes == {200, 201, 299}
RegFailureCodes == {199, 300}

\* The headers of a registration response: Location, and what
\* parseLinkHeader finds for "terms-of-service" and for "next".
RegHeaders ==
    { [location |-> l, linkTerms |-> lk[1], linkNext |-> lk[2]] :
        l \in {"", "reg-uri"}, lk \in { <<"", "">>, <<"terms-v1", "authz-url">> } }

\* What c.Do can give for the POST of a registration request.
RegOutcomes ==
    { [err |-> ErrTransport, res |-> NoRegResponse] }
    \cup { [err |-> Nil, res |-> [code |-> c, body |-> b, location |-> hd.location,
                                  linkTerms |-> hd.linkTerms,
                                  linkNext |-> hd.linkNext]] :
             c \in RegSuccessCodes, b \in RegBodies, hd \in RegHeaders }
    \cup { [err |-> Nil, res |-> [NoRegResponse EXCEPT !.code = c]] :
             c \in RegFailureCodes }

\* c.Do is reached only when PostJWS has a nonce and a signed body.
RegOutcomesAfter(h, signOK) ==
    IF fetchNonce(h).err = Nil /\ signOK
    THEN RegOutcomes
    ELSE { [err |-> ErrTransport, res |-> NoRegResponse] }

\* json.NewDecoder(res.Body).Decode(acct) (src/acme.go:318): the members of
\* the body overwrite the fields of acct; the other fields stay.
Decode(a, body) ==
    IF body.kind = "object"
    THEN [acct |-> [a EXCEPT !.contact = body.contact, !.agreement = body.agreement],
          ok |-> TRUE]
    ELSE IF body.kind = "partial"
    THEN [acct |-> [a EXCEPT !.contact = body.contact], ok |-> FALSE]
    ELSE [acct |-> a, ok |-> FALSE]

\* The request doReg builds (src/acme.go:298-308)
RegRequest(a, typ) ==
    [resource |-> typ, contact |-> a.contact, agreement |-> a.agreement]

\* doReg as it would be if every registration request had to be answered
\* with 201 Created.
doRegCreatedOnly(h, signOK, p, a, typ) ==
    LET r == PostJWS(h, signOK, p)
        d == Decode(a, r.res.body) IN
    IF r.err # Nil THEN [sent |-> r.sent, acct |-> a, err |-> r.err]
    ELSE IF r.res.code # 201
    THEN [sent |-> r.sent, acct |-> a, err |-> ErrACME]
    ELSE IF ~d.ok THEN [sent |-> r.sent, acct |-> d.acct, err |-> ErrDecode]
    ELSE [sent |-> r.sent,
          acct |-> [d.acct EXCEPT
                      !.uri = r.res.location,
                      !.terms = IF r.res.linkTerms # "" THEN r.res.linkTerms ELSE @,
                      !.authz = IF r.res.linkNext # "" THEN r.res.linkNext ELSE @],
          err |-> Nil]

\* Client.doReg (src/acme.go:297-329): acct is the Account after the call.
doReg(h, signOK, p, a, typ) ==
    LET r == PostJWS(h, signOK, p)
        d == Decode(a, r.res.body) IN
    IF r.err # Nil THEN [sent |-> r.sent, acct |-> a, err |-> r.err]
    ELSE IF r.res.code < 200 \/ r.res.code > 299
    THEN [sent |-> r.sent, acct |-> a, err |-> ErrACME]
    ELSE IF ~d.ok THEN [sent |-> r.sent, acct |-> d.acct, err |-> ErrDecode]
    ELSE [sent |-> r.sent,
          acct |-> [d.acct EXCEPT
                      !.uri = r.res.location,
                      !.terms = IF r.res.linkTerms # "" THEN r.res.linkTerms ELSE @,
                      !.authz = IF r.res.linkNext # "" THEN r.res.linkNext ELSE @],
          err |-> Nil]

NoReg == [op |-> "none", url |-> "", in |-> ZeroAccount, req |-> RegRequest(ZeroAccount, ""),
          resp |-> [err |-> Nil, res |-> NoRegResponse], sent |-> FALSE,
          out |-> ZeroAccount, err |-> Nil]

InitReg ==
    /\ acct = ZeroAccount
    /\ reg = NoReg

\* One registration call on Account a: what goes out, what comes back, what
\* the call returns.
RegCall(op, url, a, typ, h, signOK, p) ==
    LET r == doReg(h, signOK, p, a, typ) IN
    [op |-> op, url |-> url, in |-> a, req |-> RegRequest(a, typ),
     resp |-> IF r.sent THEN p ELSE [err |-> Nil, res |-> NoRegResponse],
     sent |-> r.sent, out |-> r.acct, err |-> r.err]

\* Client.Register (src/acme.go:165-167) on an Account the caller filled in
Register ==
    /\ \E e \in CallerAccounts, h \in HeadOutcomes("n"), signOK \in BOOLEAN :
       \E p \in RegOutcomesAfter(h, signOK) :
         LET a == [acct EXCEPT !.contact = e.contact, !.agreement = e.agreement] IN
         /\ reg' = RegCall("Register", "new-reg", a, "new-reg", h, signOK, p)
         /\ acct' = reg'.out
    /\ UNCHANGED <<postVars, certVars, errVars, callVars>>

\* Client.GetReg (src/acme.go:171-174): the Account returned is a new one.
GetReg ==
    /\ \E h \in HeadOutcomes("n"), signOK \in BOOLEAN :
       \E p \in RegOutcomesAfter(h, signOK) :
         reg' = RegCall("GetReg", "reg-uri", ZeroAccount, "reg", h, signOK, p)
    /\ UNCHANGED <<acct, postVars, certVars, errVars, callVars>>

\* Client.UpdateReg (src/acme.go:181-183) on the caller's Account, whose
\* Contact and AgreedTerms the caller may have changed
UpdateReg ==
    /\ \E e \in CallerAccounts, h \in HeadOutcomes("n"), signOK \in BOOLEAN :
       \E p \in RegOutcomesAfter(h, signOK) :
         LET a == [acct EXCEPT !.contact = e.contact, !.agreement = e.agreement] IN
         /\ reg' = RegCall("UpdateReg", "reg-uri", a, "reg", h, signOK, p)
         /\ acct' = reg'.out
    /\ UNCHANGED <<postVars, certVars, errVars, callVars>>

RegNext == Register \/ GetReg \/ UpdateReg

\* ------------------------------------------------------------------------
\* ShareSpec: one registration call, statement by statement, while another
\* goroutine holds the same *Account and reads it
\* ------------------------------------------------------------------------
\* The Account the two goroutines hold when the call starts: a new one, or
\* one of an earlier registration.
SharedAccounts ==
    { ZeroAccount,
      [uri |-> "old-reg-uri", contact |-> <<"mailto:old@example.org">>,
       agreement |-> "", terms |-> "terms-v0", authz |-> ""] }

\* upd.pc is the statement of doReg to run next; target tells whether acct
\* of doReg points to the shared Account or to the new one of GetReg;
\* before and after are the shared Account as it was when the call started
\* and as it is when the call has returned.
NoUpd == [pc |-> "idle", op |-> "none", target |-> "none",
          resp |-> [err |-> Nil, res |-> NoRegResponse],
          before |-> ZeroAccount, after |-> ZeroAccount, fresh |-> ZeroAccount,
          err |-> Nil]
NoSeen == [a |-> ZeroAccount, before |-> ZeroAccount, after |-> ZeroAccount,
           during |-> FALSE]

InitShare ==
    /\ upd = NoUpd
    /\ seen = NoSeen

\* The Account acct of doReg points to.
Target == IF upd.target = "shared" THEN acct ELSE upd.fresh

\* doReg up to the test of the status code (src/acme.go:298-316): the
\* request is sent and the call returns, or goes on to Decode.
StartDoReg(op, typ, target) ==
    /\ upd.pc = "idle"
    /\ \E h \in HeadOutcomes("n"), signOK \in BOOLEAN :
       \E p \in RegOutcomesAfter(h, signOK) :
         LET a == IF target = "shared" THEN acct ELSE ZeroAccount
             r == PostJWS(h, signOK, p)
             whole == doReg(h, signOK, p, a, typ)
             returns == r.err # Nil \/ r.res.code < 200 \/ r.res.code > 299 IN
         upd' = [pc |-> IF returns THEN "returned" ELSE "decode",
                 op |-> op, target |-> target,
                 resp |-> IF r.sent THEN p ELSE [err |-> Nil, res |-> NoRegResponse],
                 before |-> acct,
                 after |-> IF target = "shared" THEN whole.acct ELSE acct,
                 fresh |-> ZeroAccount,
                 err |-> IF r.err # Nil THEN r.err
                         ELSE IF returns THEN ErrACME ELSE Nil]
    /\ seen' = NoSeen
    /\ UNCHANGED <<acct, reg, lib, mainVars, moreVars, postVars, certVars, errVars>>

\* Client.Register (src/acme.go:165-167)
StartRegister == StartDoReg("Register", "new-reg", "shared")

\* Client.GetReg (src/acme.go:171-174): a := &Account{}
StartGetReg == StartDoReg("GetReg", "reg", "fresh")

\* Client.UpdateReg (src/acme.go:181-183)
StartUpdateReg == StartDoReg("UpdateReg", "reg", "shared")

\* json.NewDecoder(res.Body).Decode(acct) (src/acme.go:318-320)
DecodeStep ==
    /\ upd.pc = "decode"
    /\ LET d == Decode(Target, upd.resp.res.body) IN
       /\ acct' = IF upd.target = "shared" THEN d.acct ELSE acct
       /\ upd' = [upd EXCEPT !.pc = IF d.ok THEN "uri" ELSE "returned",
                             !.fresh = IF upd.target = "shared" THEN @ ELSE d.acct,
                             !.err = IF d.ok THEN Nil ELSE ErrDecode]
    /\ UNCHANGED <<seen, reg, lib, mainVars, moreVars, postVars, certVars, errVars>>

\* acct.URI = res.Header.Get("Location") (src/acme.go:321)
URIStep ==
    /\ upd.pc = "uri"
    /\ LET a == [Target EXCEPT !.uri = upd.resp.res.location] IN
       /\ acct' = IF upd.target = "shared" THEN a ELSE acct
       /\ upd' = [upd EXCEPT !.pc = "terms",
                             !.fresh = IF upd.target = "shared" THEN @ ELSE a]
    /\ UNCHANGED <<seen, reg, lib, mainVars, moreVars, postVars, certVars, errVars>>

\* acct.CurrentTerms = v, for a terms-of-service link (src/acme.go:322-324)
TermsStep ==
    /\ upd.pc = "terms"
    /\ LET v == upd.resp.res.linkTerms
           a == IF v # "" THEN [Target EXCEPT !.terms = v] ELSE Target IN
       /\ acct' = IF upd.target = "shared" THEN a ELSE acct
       /\ upd' = [upd EXCEPT !.pc = "authz",
                             !.fresh = IF upd.target = "shared" THEN @ ELSE a]
    /\ UNCHANGED <<seen, reg, lib, mainVars, moreVars, postVars, certVars, errVars>>

\* acct.Authz = v, for a next link, and the return (src/acme.go:325-328)
AuthzStep ==
    /\ upd.pc = "authz"
    /\ LET v == upd.resp.res.linkNext
           a == IF v # "" THEN [Target EXCEPT !.authz = v] ELSE Target IN
       /\ acct' = IF upd.target = "shared" THEN a ELSE acct
       /\ upd' = [upd EXCEPT !.pc = "returned",
                             !.fresh = IF upd.target = "shared" THEN @ ELSE a]
    /\ UNCHANGED <<seen, reg, lib, mainVars, moreVars, postVars, certVars, errVars>>

\* The other holder reads the Account. Nothing orders the read with the
\* assignments of doReg; of the outcomes of such a read the model takes
\* those that fall between two assignments.
ReadAccount ==
    /\ upd.pc # "idle"
    /\ seen' = [a |-> acct, before |-> upd.before, after |-> upd.after,
                during |-> upd.pc # "returned"]
    /\ UNCHANGED <<acct, upd, reg, lib, mainVars, moreVars, postVars, certVars, errVars>>

ShareNext ==
    \/ StartRegister
    \/ StartGetReg
    \/ StartUpdateReg
    \/ DecodeStep
    \/ URIStep
    \/ TermsStep
    \/ AuthzStep
    \/ ReadAccount

\* ------------------------------------------------------------------------
\* MainSpec: main, its exit status, and setExitStatus statement by
\* statement, called by main and by goroutines beside it
\* ------------------------------------------------------------------------
\* Goroutine 0 is main's.
Callers == 0..NumGoroutines
Statuses == 0..MaxStatus
Unlocked == {}

\* commands (src/cmd/goacme/main.go:73-76), by name
CommandNames == {"reg", "whoami"}

\* The arguments a user may give.
ArgLists ==
    { << >>, <<"help">>, <<"help", "reg">>, <<"help", "nosuch">>,
      <<"help", "reg", "whoami">>, <<"nosuch">>, <<"reg">>, <<"whoami">>,
      <<"reg", "-nosuchflag">> }

\* cmd.flag.Parse fails on the arguments after the command name.
BadFlag(args) == Len(args) > 1 /\ args[2] = "-nosuchflag"

\* A goroutine outside setExitStatus. fatal: the call is errorf's in fatalf.
Outside == [pc |-> "out", n |-> 0, fatal |-> FALSE]

\* The variables of CertSpec other than exitStatus
certRest == <<cpc, certManual, di, z, chal, acc, caStatus, lastPoll, gotValid,
              authzOK, authzErr, listening, newCertSent, cc, lastFetch,
              sleepDur, certWritten>>
mainRest == <<postVars, certRest, errVars, regVars, lib, shareVars, moreVars>>

InitMain ==
    /\ mpc = "start"
    /\ margs = << >>
    /\ status = 0
    /\ exitMu = Unlocked
    /\ gs = [g \in Callers |-> Outside]
    /\ recorded = {}

\* os.Exit(n)
osExit(n) ==
    /\ status' = n
    /\ mpc' = "exited"

\* help (src/cmd/goacme/main.go:147-168): the status it exits with, or
\* "returns" when it returns to main.
help(args) ==
    IF Len(args) = 0 THEN "returns"
    ELSE IF Len(args) # 1 THEN "exit 2"
    ELSE IF args[1] \in CommandNames THEN "returns"
    ELSE "exit 2"

\* main up to cmd.run (src/cmd/goacme/main.go:108-134), with usage
\* (136-139) and command.Usage (59-63); a main that returns ends the
\* process with status 0.
MainStart ==
    /\ mpc = "start"
    /\ \E args \in ArgLists :
         /\ margs' = args
         /\ IF Len(args) < 1 THEN osExit(2)
            ELSE IF args[1] = "help"
            THEN IF help(Tail(args)) = "returns" THEN osExit(0) ELSE osExit(2)
            ELSE IF args[1] \in CommandNames
            THEN IF BadFlag(args) THEN osExit(2)
                 ELSE mpc' = "run" /\ status' = status
            ELSE osExit(2)
    /\ UNCHANGED <<exitStatus, exitMu, gs, recorded, mainRest>>

\* A goroutine of the running command calls setExitStatus(n); main calls
\* it from errorf, with 1 (src/cmd/goacme/main.go:98-101), and fatal tells
\* that errorf was called from fatalf.
CallSetExitStatus(g) ==
    /\ mpc = "run"
    /\ gs[g].pc = "out"
    /\ \E n \in Statuses, fatal \in BOOLEAN :
         /\ g = 0 => n = 1
         /\ g # 0 => ~fatal
         /\ gs' = [gs EXCEPT ![g] = [pc |-> "lock", n |-> n, fatal |-> fatal]]
    /\ UNCHANGED <<mpc, margs, status, exitStatus, exitMu, recorded, mainRest>>

\* exitMu.Lock() as it would be if it did not wait for the mutex.
LockNoWait(g) ==
    /\ mpc = "run"
    /\ gs[g].pc = "lock"
    /\ exitMu' = exitMu \cup {g}
    /\ gs' = [gs EXCEPT ![g].pc = "test"]
    /\ UNCHANGED <<mpc, margs, status, exitStatus, recorded, mainRest>>

\* exitMu.Lock() (src/cmd/goacme/main.go:85)
Lock(g) ==
    /\ mpc = "run"
    /\ gs[g].pc = "lock"
    /\ exitMu = Unlocked
    /\ exitMu' = exitMu \cup {g}
    /\ gs' = [gs EXCEPT ![g].pc = "test"]
    /\ UNCHANGED <<mpc, margs, status, exitStatus, recorded, mainRest>>

\* if exitStatus < n (src/cmd/goacme/main.go:86)
Test(g) ==
    /\ mpc = "run"
    /\ gs[g].pc = "test"
    /\ gs' = [gs EXCEPT ![g].pc = IF exitStatus < gs[g].n THEN "write" ELSE "unlock"]
    /\ UNCHANGED <<mpc, margs, status, exitStatus, exitMu, recorded, mainRest>>

\* exitStatus = n (src/cmd/goacme/main.go:87)
Write(g) ==
    /\ mpc = "run"
    /\ gs[g].pc = "write"
    /\ exitStatus' = gs[g].n
    /\ gs' = [gs EXCEPT ![g].pc = "unlock"]
    /\ UNCHANGED <<mpc, margs, status, exitMu, recorded, mainRest>>

\* exitMu.Unlock() and the return (src/cmd/goacme/main.go:89-90); after
\* errorf, fatalf goes on to exit (103-106).
Unlock(g) ==
    /\ mpc = "run"
    /\ gs[g].pc = "unlock"
    /\ exitMu' = exitMu \ {g}
    /\ recorded' = recorded \cup {gs[g].n}
    /\ gs' = [gs EXCEPT ![g].pc = IF gs[g].fatal THEN "exit" ELSE "out"]
    /\ UNCHANGED <<mpc, margs, status, exitStatus, mainRest>>

\* exit (src/cmd/goacme/main.go:92-94), called by fatalf or by main when
\* cmd.run has returned (126): exitStatus is read with exitMu not held.
Exit ==
    /\ mpc = "run"
    /\ gs[0].pc \in {"out", "exit"}
    /\ osExit(exitStatus)
    /\ UNCHANGED <<margs, exitStatus, exitMu, gs, recorded, mainRest>>

MainNext ==
    \/ MainStart
    \/ \E g \in Callers :
         CallSetExitStatus(g) \/ Lock(g) \/ Test(g) \/ Write(g) \/ Unlock(g)
    \/ Exit

\* ------------------------------------------------------------------------
\* Strings as the functions of package strings see them: sequences of
\* characters
\* ------------------------------------------------------------------------
RECURSIVE TrimLeft(_, _)
\* strings.TrimLeft(s, cutset)
TrimLeft(s, cutset) ==
    IF s # << >> /\ Head(s) \in cutset THEN TrimLeft(Tail(s), cutset) ELSE s

RECURSIVE TrimRight(_, _)
\* strings.TrimRight(s, cutset)
TrimRight(s, cutset) ==
    IF s # << >> /\ s[Len(s)] \in cutset
    THEN TrimRight(SubSeq(s, 1, Len(s) - 1), cutset)
    ELSE s

\* strings.Trim(s, cutset)
Trim(s, cutset) == TrimRight(TrimLeft(s, cutset), cutset)

\* strings.TrimSpace(s)
WhiteSpace == {" ", "\t"}
TrimSpace(s) == Trim(s, WhiteSpace)

\* strings.HasPrefix(s, prefix)
HasPrefix(s, prefix) ==
    Len(s) >= Len(prefix) /\ SubSeq(s, 1, Len(prefix)) = prefix

RECURSIVE Split(_, _)
\* strings.Split(s, sep) for a separator of one character
Split(s, sep) ==
    IF \E i \in 1..Len(s) : s[i] = sep
    THEN LET i == CHOOSE k \in 1..Len(s) :
                    s[k] = sep /\ \A j \in 1..(k - 1) : s[j] # sep IN
         <<SubSeq(s, 1, i - 1)>> \o Split(SubSeq(s, i + 1, Len(s)), sep)
    ELSE <<s>>

\* ------------------------------------------------------------------------
\* parseLinkHeader (src/acme.go:365-379): h is h["Link"], the values of
\* the Link header lines in their order.
\* ------------------------------------------------------------------------
RelPrefix == <<"r", "e", "l", "=">>

\* The inner loop finds in line v a part that gives rel.
LineGivesRel(v, rel) ==
    LET parts == Split(v, ";") IN
    \E k \in 1..Len(parts) :
       LET p == TrimSpace(parts[k]) IN
       /\ HasPrefix(p, RelPrefix)
       /\ Trim(SubSeq(p, Len(RelPrefix) + 1, Len(p)), {"\""}) = rel

parseLinkHeader(h, rel) ==
    IF \E i \in 1..Len(h) : LineGivesRel(h[i], rel)
    THEN LET i == CHOOSE k \in 1..Len(h) :
                    /\ LineGivesRel(h[k], rel)
                    /\ \A j \in 1..(k - 1) : ~LineGivesRel(h[j], rel) IN
         Trim(Split(h[i], ";")[1], {"<", ">"})
    ELSE << >>

\* ------------------------------------------------------------------------
\* Discover and the requests of the plain GETs
\* ------------------------------------------------------------------------
\* Endpoint (src/acme.go:65-70), with the names of its JSON members
Endpoint(regURL, authzURL, certURL, revokeURL) ==
    [RegURL |-> regURL, AuthzURL |-> authzURL, CertURL |-> certURL,
     RevokeURL |-> revokeURL]
ZeroEndpoint == Endpoint("", "", "", "")
EndpointMembers == {"new-reg", "new-authz", "new-cert", "revoke-cert"}

\* Stands for the value of a JSON member that is a number, not a string.
NotAString == "<number>"

\* The bodies a directory URL may serve. syntaxOK: the body is one JSON
\* object; members: those of its members that an Endpoint has a field for.
FullDirectory ==
    [syntaxOK |-> TRUE,
     members |-> [m \in EndpointMembers |-> "https://example.com/acme/" \o m]]
DirectoryBodies ==
    { FullDirectory,
      [FullDirectory EXCEPT !.members = [m \in EndpointMembers |-> "https://ca.tld/" \o m]],
      [FullDirectory EXCEPT !.members = [m \in {"new-reg", "new-cert"} |-> "https://example.com/acme/" \o m]],
      [FullDirectory EXCEPT !.members["new-authz"] = NotAString],
      [syntaxOK |-> FALSE, members |-> << >>] }

\* json.Decoder.Decode into an Endpoint: a member that is absent or not a
\* string leaves its field empty, the other fields are still set; the error
\* tells of a body that is not JSON or of a member that is not a string.
DecodeEndpoint(body) ==
    LET f(m) == IF body.syntaxOK /\ m \in DOMAIN body.members
                    /\ body.members[m] # NotAString
                THEN body.members[m] ELSE "" IN
    [ep |-> Endpoint(f("new-reg"), f("new-authz"), f("new-cert"), f("revoke-cert")),
     err |-> IF body.syntaxOK /\ \A m \in DOMAIN body.members :
                                   body.members[m] # NotAString
             THEN Nil ELSE ErrDecode]

\* What client.Get can give for the directory URL: an error, a 200 with a
\* body, or another status with the body of an error.
NoDirectory == [syntaxOK |-> FALSE, members |-> << >>]
Created == [NoRes EXCEPT !.code = 201, !.status = "201 Created"]
DiscoverOutcomes ==
    { [err |-> ErrTransport, res |-> NoRes, body |-> NoDirectory] }
    \cup { [err |-> Nil, res |-> [NoRes EXCEPT !.code = 200, !.status = "200 OK"],
            body |-> b] : b \in DirectoryBodies }
    \cup { [err |-> Nil, res |-> r, body |-> b] :
             r \in ErrorResponses \cup {Created}, b \in {NoDirectory, FullDirectory} }

\* The *Error of a return that carries none.
NoError == [code |-> 0, type |-> "", detail |-> ""]

\* Discover as it would be if it took any 2xx status for a success.
DiscoverAny2xx(g) ==
    IF g.err # Nil THEN [ep |-> ZeroEndpoint, err |-> g.err, acme |-> NoError]
    ELSE IF g.res.code \notin 200..299
    THEN [ep |-> ZeroEndpoint, err |-> ErrACME, acme |-> responseError(g.res)]
    ELSE [ep |-> DecodeEndpoint(g.body).ep, err |-> Nil, acme |-> NoError]

\* Discover (src/acme.go:333-350); acme is the *Error when err is one. The
\* error of Decode is dropped: the err tested after it is the one of
\* client.Get, which is nil there.
Discover(g) ==
    IF g.err # Nil THEN [ep |-> ZeroEndpoint, err |-> g.err, acme |-> NoError]
    ELSE IF g.res.code # 200
    THEN [ep |-> ZeroEndpoint, err |-> ErrACME, acme |-> responseError(g.res)]
    ELSE [ep |-> DecodeEndpoint(g.body).ep, err |-> Nil, acme |-> NoError]

\* A request as the server sees it. signed: the body is a JWS.
Request(method, url, signed) == [method |-> method, url |-> url, signed |-> signed]

\* The requests of Discover (src/acme.go:337): one client.Get
DiscoverRequests(url) == << Request("GET", url, FALSE) >>

\* The requests of GetAuthz as they would be if it went through PostJWS.
GetAuthzRequestsPostJWS(url) ==
    << Request("HEAD", url, FALSE), Request("POST", url, TRUE) >>

\* The requests of GetAuthz (src/acme.go:222): one c.Get
GetAuthzRequests(url) == << Request("GET", url, FALSE) >>

\* ------------------------------------------------------------------------
\* ThumbSpec: jwkThumbprint on the key of RFC 7638, computed on bytes; one
\* step for each round of sha256.Sum256
\* ------------------------------------------------------------------------
\* Texts are sequences of one-character strings, bytes are numbers 0..255,
\* and a 32-bit word is the pair of its two 16-bit halves.

\* The alphabet of base64.RawURLEncoding
encodeURL ==
    <<
       "A", "B", "C", "D", "E", "F", "G", "H", "I", "J", "K", "L", "M", "N", "O", "P",
       "Q", "R", "S", "T", "U", "V", "W", "X", "Y", "Z", "a", "b", "c", "d", "e", "f",
       "g", "h", "i", "j", "k", "l", "m", "n", "o", "p", "q", "r", "s", "t", "u", "v",
       "w", "x", "y", "z", "0", "1", "2", "3", "4", "5", "6", "7", "8", "9", "-", "_" >>

\* The 6-bit value of a character of the alphabet
Sextet(c) == (CHOOSE i \in 1..Len(encodeURL) : encodeURL[i] = c) - 1

\* The byte of a character of a JWK text ([]byte(jwk), src/jws.go:69)
ByteOf(c) ==
    IF c = "{" THEN 123
    ELSE IF c = "}" THEN 125
    ELSE IF c = "\"" THEN 34
    ELSE IF c = ":" THEN 58
    ELSE IF c = "," THEN 44
    ELSE LET v == Sextet(c) IN
         IF v < 26 THEN 65 + v
         ELSE IF v < 52 THEN 97 + (v - 26)
         ELSE IF v < 62 THEN 48 + (v - 52)
         ELSE IF v = 62 THEN 45 ELSE 95

\* Element i of sequence q, 0 past its end
At(q, i) == IF i <= Len(q) THEN q[i] ELSE 0

\* base64.RawURLEncoding.EncodeToString (src/jws.go:66-70): each three
\* bytes give four characters of six bits, and the last one or two bytes
\* two or three characters, with no padding.
EncodeToString(b) ==
    [i \in 1..((Len(b) * 8 + 5) \div 6) |->
       LET g == ((i - 1) \div 4) * 3
           b1 == At(b, g + 1)
           b2 == At(b, g + 2)
           b3 == At(b, g + 3)
           k == (i - 1) % 4 IN
       encodeURL[1 + (IF k = 0 THEN b1 \div 4
                      ELSE IF k = 1 THEN (b1 % 4) * 16 + (b2 \div 16)
                      ELSE IF k = 2 THEN (b2 % 16) * 4 + (b3 \div 64)
                      ELSE b3 % 64)]]

\* base64.RawURLEncoding.DecodeString (src/acme_test.go:454, 460): each
\* four characters give three bytes, and the last two or three characters
\* one or two bytes.
DecodeString(t) ==
    [i \in 1..((Len(t) * 6) \div 8) |->
       LET g == ((i - 1) \div 3) * 4
           k == (i - 1) % 3
           c1 == Sextet(t[g + 1 + k])
           c2 == Sextet(t[g + 2 + k]) IN
       IF k = 0 THEN c1 * 4 + (c2 \div 16)
       ELSE IF k = 1 THEN (c1 % 16) * 16 + (c2 \div 4)
       ELSE (c1 % 4) * 64 + c2]

\* big.Int.SetBytes followed by Bytes: the magnitude, big-endian, without
\* leading zero bytes.
SetBytes(b) ==
    LET lead == CHOOSE k \in 0..Len(b) :
                  /\ \A i \in 1..k : b[i] = 0
                  /\ k < Len(b) => b[k + 1] # 0 IN
    SubSeq(b, lead + 1, Len(b))

RECURSIVE Uint64(_)
\* e.Uint64() of the exponent (src/acme_test.go:468), which fits an int
Uint64(b) ==
    IF Len(b) = 0 THEN 0 ELSE Uint64(SubSeq(b, 1, Len(b) - 1)) * 256 + b[Len(b)]

RECURSIVE NewIntBytes(_)
\* big.NewInt(int64(key.E)).Bytes() (src/jws.go:65, 67)
NewIntBytes(x) ==
    IF x = 0 THEN << >> ELSE NewIntBytes(x \div 256) \o << x % 256 >>

\* The key of RFC 7638 as TestJWKThumbprint builds it (src/acme_test.go:444-469)
base64N ==
    <<
       "0", "v", "x", "7", "a", "g", "o", "e", "b", "G", "c", "Q", "S", "u", "u", "P",
       "i", "L", "J", "X", "Z", "p", "t", "N", "9", "n", "n", "d", "r", "Q", "m", "b",
       "X", "E", "p", "s", "2", "a", "i", "A", "F", "b", "W", "h", "M", "7", "8", "L",
       "h", "W", "x", "4", "c", "b", "b", "f", "A", "A", "t", "V", "T", "8", "6", "z",
       "w", "u", "1", "R", "K", "7", "a", "P", "F", "F", "x", "u", "h", "D", "R", "1",
       "L", "6", "t", "S", "o", "c", "_", "B", "J", "E", "C", "P", "e", "b", "W", "K",
       "R", "X", "j", "B", "Z", "C", "i", "F", "V", "4", "n", "3", "o", "k", "n", "j",
       "h", "M", "s", "t", "n", "6", "4", "t", "Z", "_", "2", "W", "-", "5", "J", "s",
       "G", "Y", "4", "H", "c", "5", "n", "9", "y", "B", "X", "A", "r", "w", "l", "9",
       "3", "l", "q", "t", "7", "_", "R", "N", "5", "w", "6", "C", "f", "0", "h", "4",
       "Q", "y", "Q", "5", "v", "-", "6", "5", "Y", "G", "j", "Q", "R", "0", "_", "F",
       "D", "W", "2", "Q", "v", "z", "q", "Y", "3", "6", "8", "Q", "Q", "M", "i", "c",
       "A", "t", "a", "S", "q", "z", "s", "8", "K", "J", "Z", "g", "n", "Y", "b", "9",
       "c", "7", "d", "0", "z", "g", "d", "A", "Z", "H", "z", "u", "6", "q", "M", "Q",
       "v", "R", "L", "5", "h", "a", "j", "r", "n", "1", "n", "9", "1", "C", "b", "O",
       "p", "b", "I", "S", "D", "0", "8", "q", "N", "L", "y", "r", "d", "k", "t", "-",
       "b", "F", "T", "W", "h", "A", "I", "4", "v", "M", "Q", "F", "h", "6", "W", "e",
       "Z", "u", "0", "f", "M", "4", "l", "F", "d", "2", "N", "c", "R", "w", "r", "3",
       "X", "P", "k", "s", "I", "N", "H", "a", "Q", "-", "G", "_", "x", "B", "n", "i",
       "I", "q", "b", "w", "0", "L", "s", "1", "j", "F", "4", "4", "-", "c", "s", "F",
       "C", "u", "r", "-", "k", "E", "g", "U", "8", "a", "w", "a", "p", "J", "z", "K",
       "n", "q", "D", "K", "g", "w" >>
base64E == <<"A", "Q", "A", "B">>
expected ==
    <<
       "N", "z", "b", "L", "s", "X", "h", "8", "u", "D", "C", "c", "d", "-", "6", "M",
       "N", "w", "X", "F", "4", "W", "_", "7", "n", "o", "W", "X", "F", "Z", "A", "f",
       "H", "k", "x", "Z", "s", "R", "G", "C", "9", "X", "s" >>
ExampleKey ==
    [N |-> SetBytes(DecodeString(base64N)),
     E |-> Uint64(SetBytes(DecodeString(base64E)))]

\* jwk as it would be with the members in the order kty, e, n.
jwkKtyFirst(key) ==
    <<"{", "\"", "k", "t", "y", "\"", ":", "\"", "R", "S", "A", "\"", ",",
      "\"", "e", "\"", ":", "\"">>
    \o EncodeToString(NewIntBytes(key.E))
    \o <<"\"", ",", "\"", "n", "\"", ":", "\"">>
    \o EncodeToString(key.N)
    \o <<"\"", "}">>

\* jwk of jwkThumbprint (src/jws.go:64-68): {"e":"%s","kty":"RSA","n":"%s"}
jwk(key) ==
    <<"{", "\"", "e", "\"", ":", "\"">>
    \o EncodeToString(NewIntBytes(key.E))
    \o <<"\"", ",", "\"", "k", "t", "y", "\"", ":", "\"", "R", "S", "A", "\"",
         ",", "\"", "n", "\"", ":", "\"">>
    \o EncodeToString(key.N)
    \o <<"\"", "}">>

\* ---- sha256.Sum256 (src/jws.go:69), as FIPS 180-4 defines it ----
Half == 65536

RECURSIVE Xor16(_, _)
Xor16(x, y) ==
    IF x = 0 THEN y ELSE IF y = 0 THEN x
    ELSE ((x + y) % 2) + 2 * Xor16(x \div 2, y \div 2)

RECURSIVE And16(_, _)
And16(x, y) ==
    IF x = 0 \/ y = 0 THEN 0
    ELSE ((x % 2) * (y % 2)) + 2 * And16(x \div 2, y \div 2)

RECURSIVE Pow2(_)
Pow2(k) == IF k = 0 THEN 1 ELSE 2 * Pow2(k - 1)

Xor(a, b) == << Xor16(a[1], b[1]), Xor16(a[2], b[2]) >>
And(a, b) == << And16(a[1], b[1]), And16(a[2], b[2]) >>
Not(a) == << (Half - 1) - a[1], (Half - 1) - a[2] >>

\* The sum modulo 2^32
Add(a, b) ==
    << (a[1] + b[1] + ((a[2] + b[2]) \div Half)) % Half, (a[2] + b[2]) % Half >>

\* The rotation to the right by k bits, 0 <= k < 32
RotR(a, k) ==
    LET x == IF k >= 16 THEN << a[2], a[1] >> ELSE a
        j == k % 16
        d == Pow2(j)
        m == Pow2(16 - j) IN
    << (x[1] \div d) + (x[2] % d) * m, (x[2] \div d) + (x[1] % d) * m >>

\* The shift to the right by k bits, 0 < k < 16
ShR(a, k) ==
    LET d == Pow2(k)
        m == Pow2(16 - k) IN
    << a[1] \div d, (a[2] \div d) + (a[1] % d) * m >>

Ch(x, y, z3) == Xor(And(x, y), And(Not(x), z3))
Maj(x, y, z3) == Xor(Xor(And(x, y), And(x, z3)), And(y, z3))
BigSigma0(x) == Xor(Xor(RotR(x, 2), RotR(x, 13)), RotR(x, 22))
BigSigma1(x) == Xor(Xor(RotR(x, 6), RotR(x, 11)), RotR(x, 25))
SmallSigma0(x) == Xor(Xor(RotR(x, 7), RotR(x, 18)), ShR(x, 3))
SmallSigma1(x) == Xor(Xor(RotR(x, 17), RotR(x, 19)), ShR(x, 10))

\* The round constants and the initial hash value
K256 ==
    <<
       <<17034, 12184>>, <<28983, 17553>>, <<46528, 64463>>, <<59829, 56229>>,
       <<14678, 49755>>, <<23025, 4593>>, <<37439, 33444>>, <<43804, 24277>>,
       <<55303, 43672>>, <<4739, 23297>>, <<9265, 34238>>, <<21772, 32195>>,
       <<29374, 23924>>, <<32990, 45566>>, <<39900, 1703>>, <<49563, 61812>>,
       <<58523, 27073>>, <<61374, 18310>>, <<4033, 40390>>, <<9228, 41420>>,
       <<11753, 11375>>, <<19060, 33962>>, <<23728, 43484>>, <<30457, 35034>>,
       <<38974, 20818>>, <<43057, 50797>>, <<45059, 10184>>, <<48985, 32711>>,
       <<50912, 3059>>, <<54695, 37191>>, <<1738, 25425>>, <<5161, 10599>>,
       <<10167, 2693>>, <<11803, 8504>>, <<19756, 28156>>, <<21304, 3347>>,
       <<25866, 29524>>, <<30314, 2747>>, <<33218, 51502>>, <<37490, 11397>>,
       <<41663, 59553>>, <<43034, 26187>>, <<49739, 35696>>, <<51052, 20899>>,
       <<53650, 59417>>, <<54937, 1572>>, <<62478, 13701>>, <<4202, 41072>>,
       <<6564, 49430>>, <<7735, 27656>>, <<10056, 30540>>, <<13488, 48309>>,
       <<14620, 3251>>, <<20184, 43594>>, <<23452, 51791>>, <<26670, 28659>>,
       <<29839, 33518>>, <<30885, 25455>>, <<33992, 30740>>, <<36039, 520>>,
       <<37054, 65530>>, <<42064, 27883>>, <<48889, 41975>>, <<50801, 30962>> >>
H256 ==
    <<
       <<27145, 58983>>, <<47975, 44677>>, <<15470, 62322>>, <<42319, 62778>>,
       <<20750, 21119>>, <<39685, 26764>>, <<8067, 55723>>, <<23520, 52505>> >>

\* The message with its padding: a 1 bit, zero bits, and the length in bits
\* as 64 bits, up to a multiple of 64 bytes.
Padded(msg) ==
    LET bits == Len(msg) * 8
        zeros == (119 - (Len(msg) % 64)) % 64 IN
    msg \o << 128 >> \o [i \in 1..zeros |-> 0]
        \o << 0, 0, 0, 0, bits \div 16777216, (bits \div 65536) % 256,
              (bits \div 256) % 256, bits % 256 >>

\* Word t (from 0) of block b (from 1) of the padded message
BlockWord(pm, b, t) ==
    LET o == (b - 1) * 64 + t * 4 IN
    << pm[o + 1] * 256 + pm[o + 2], pm[o + 3] * 256 + pm[o + 4] >>

\* Word t of the message schedule; w holds the sixteen words before it.
ScheduleWord(pm, b, t, w) ==
    IF t < 16 THEN BlockWord(pm, b, t)
    ELSE Add(Add(SmallSigma1(w[15]), w[10]), Add(SmallSigma0(w[2]), w[1]))

\* One round on the working variables v = <<a, b, c, d, e, f, g, h>>
RoundOf(v, k, wt) ==
    LET t1 == Add(Add(Add(v[8], BigSigma1(v[5])), Add(Ch(v[5], v[6], v[7]), k)), wt)
        t2 == Add(BigSigma0(v[1]), Maj(v[1], v[2], v[3])) IN
    << Add(t1, t2), v[1], v[2], v[3], Add(v[4], t1), v[5], v[6], v[7] >>

\* The bytes of the hash value, big-endian
HashBytes(h) ==
    [i \in 1..(4 * Len(h)) |->
       LET x == h[((i - 1) \div 4) + 1][(((i - 1) % 4) \div 2) + 1] IN
       IF i % 2 = 1 THEN x \div 256 ELSE x % 256]

\* ------------------------------------------------------------------------
\* RetrySpec: RetryError.Error (src/errors.go:94-100) called on a goroutine.
\* re is a RetryError, whose only method is Error: for the verb %s
\* fmt.Sprintf calls the Error method of an operand that is an error.
\* ------------------------------------------------------------------------
MaxFrames == 12      \* the frames of Error the goroutine's stack can hold

\* The durations of a RetryError, in nanoseconds.
Durations == {0, 1, 1000000, 1000000000, 2000000000}

IdleRetry == [pc |-> "idle", re |-> 0, frames |-> 0, out |-> ""]

\* A caller formats or logs a RetryError: re.Error() is entered.
CallError ==
    /\ retry.pc = "idle"
    /\ \E d \in Durations :
         retry' = [retry EXCEPT !.pc = "Error", !.re = d, !.frames = 1]
    /\ UNCHANGED <<postVars, certVars, errVars, regVars, lib, shareVars, mainVars, thumb>>

\* Error calls fmt.Sprintf("retry after %s", re) (src/errors.go:99)
Sprintf ==
    /\ retry.pc = "Error"
    /\ retry' = [retry EXCEPT !.pc = "Sprintf"]
    /\ UNCHANGED <<postVars, certVars, errVars, regVars, lib, shareVars, mainVars, thumb>>

\* Sprintf formats its operand for %s: re is an error, so it calls
\* re.Error(), on a new frame.
OperandError ==
    /\ retry.pc = "Sprintf"
    /\ retry.frames < MaxFrames
    /\ retry' = [retry EXCEPT !.pc = "Error", !.frames = @ + 1]
    /\ UNCHANGED <<postVars, certVars, errVars, regVars, lib, shareVars, mainVars, thumb>>

\* The stack has no room for another frame: the runtime ends the process
\* with "fatal error: stack overflow".
StackOverflow ==
    /\ retry.pc = "Sprintf"
    /\ retry.frames = MaxFrames
    /\ retry' = [retry EXCEPT !.pc = "stack overflow"]
    /\ UNCHANGED <<postVars, certVars, errVars, regVars, lib, shareVars, mainVars, thumb>>

RetryProgram == Sprintf \/ OperandError \/ StackOverflow
RetryNext == CallError \/ RetryProgram

ZeroWord == << 0, 0 >>
IdleThumb ==
    [pc |-> "idle", msg |-> << >>, block |-> 0, t |-> 0,
     w |-> [i \in 1..16 |-> ZeroWord], v |-> H256, h |-> H256, out |-> << >>]

InitMore == thumb = IdleThumb /\ retry = IdleRetry

\* []byte(jwk) for the key (src/jws.go:64-69)
JWKBytes(key) ==
    LET text == jwk(key) IN [i \in 1..Len(text) |-> ByteOf(text[i])]

\* jwkThumbprint up to the call of sha256.Sum256 (src/jws.go:63-69)
CallJWKThumbprint ==
    /\ thumb.pc = "idle"
    /\ Len(thumb.out) < ThumbCalls
    /\ thumb' = [thumb EXCEPT !.pc = "round",
                              !.msg = Padded(JWKBytes(ExampleKey)),
                              !.block = 1, !.t = 0, !.v = H256, !.h = H256]
    /\ UNCHANGED <<postVars, certVars, errVars, regVars, lib, shareVars, mainVars, retry>>

\* One round of the compression of a block
Round ==
    /\ thumb.pc = "round"
    /\ thumb.t < 64
    /\ LET wt == ScheduleWord(thumb.msg, thumb.block, thumb.t, thumb.w) IN
       thumb' = [thumb EXCEPT !.t = @ + 1,
                              !.w = Tail(@) \o << wt >>,
                              !.v = RoundOf(@, K256[thumb.t + 1], wt)]
    /\ UNCHANGED <<postVars, certVars, errVars, regVars, lib, shareVars, mainVars, retry>>

\* The end of a block: the working variables are added to the hash value.
EndBlock ==
    /\ thumb.pc = "round"
    /\ thumb.t = 64
    /\ LET h == [i \in 1..8 |-> Add(thumb.h[i], thumb.v[i])] IN
       thumb' = [thumb EXCEPT !.h = h, !.v = h, !.t = 0, !.block = @ + 1,
                              !.pc = IF thumb.block * 64 = Len(thumb.msg)
                                     THEN "sum" ELSE "round"]
    /\ UNCHANGED <<postVars, certVars, errVars, regVars, lib, shareVars, mainVars, retry>>

\* return base64.RawURLEncoding.EncodeToString(hash[:]) (src/jws.go:70)
ReturnThumbprint ==
    /\ thumb.pc = "sum"
    /\ thumb' = [thumb EXCEPT !.pc = "idle",
                              !.out = Append(@, EncodeToString(HashBytes(thumb.h)))]
    /\ UNCHANGED <<postVars, certVars, errVars, regVars, lib, shareVars, mainVars, retry>>

ThumbNext == CallJWKThumbprint \/ Round \/ EndBlock \/ ReturnThumbprint

\* ------------------------------------------------------------------------
\* LibSpec: one call of a function of the library, on arguments drawn by
\* the initial state
\* ------------------------------------------------------------------------
NoOut == "no result yet"
NoCall == [fn |-> "none", in |-> << >>, out |-> NoOut, done |-> FALSE]

InitLib == lib = NoCall /\ InitShare /\ InitMain /\ InitMore

\* The call of function fn on argument x, before it is made.
Call(fn, x) == [fn |-> fn, in |-> x, out |-> NoOut, done |-> FALSE]

\* The HEAD responses given to fetchNonce: any status code, with or without
\* a replay-nonce header.
HeadCodes == {200, 204, 400, 405, 503}
HeadResponses ==
    { [ok |-> TRUE, code |-> c, nonce |-> n] :
        c \in HeadCodes, n \in {EmptyString, "nonce1", "nonce2"} }

\* A link of a Link header, as the server writes it:
\*   <url>[ ];[ ][foo=bar;[ ]]rel=["]rel["]
\* url and rel are strings, the other fields tell what the server puts in.
Rels == { <<"n">>, <<"N">>, <<"t">> }
LinksTo(u) ==
    { [url |-> u, rel |-> r, spaceBefore |-> sb, foo |-> f, spaceAfter |-> sa,
       quoted |-> q] :
        r \in { <<"n">>, <<"N">> }, sb \in BOOLEAN, f \in BOOLEAN,
        sa \in BOOLEAN, q \in BOOLEAN }

Opt(b, str) == IF b THEN str ELSE << >>

\* The text of a link.
LinkText(l) ==
    <<"<">> \o l.url \o <<">">> \o Opt(l.spaceBefore, <<" ">>) \o <<";">>
    \o Opt(l.spaceAfter, <<" ">>)
    \o Opt(l.foo, <<"f", "o", "o", "=", "b", "a", "r", ";">>
                    \o Opt(l.spaceAfter, <<" ">>))
    \o RelPrefix \o Opt(l.quoted, <<"\"">>) \o l.rel \o Opt(l.quoted, <<"\"">>)

RECURSIVE LineText(_)
\* The text of a header line holding the links ls, separated by commas.
LineText(ls) ==
    IF Len(ls) = 1 THEN LinkText(ls[1])
    ELSE LinkText(ls[1]) \o <<",", " ">> \o LineText(Tail(ls))

\* The Link headers of a response: one line with one link, two lines with
\* one link each, or one line with two links.
LinkHeaders ==
    { << <<l>> >> : l \in LinksTo(<<"a">>) }
    \cup { << <<l1>>, <<l2>> >> : l1 \in LinksTo(<<"a">>), l2 \in LinksTo(<<"b">>) }
    \cup { << <<l1, l2>> >> : l1 \in LinksTo(<<"a">>), l2 \in LinksTo(<<"b">>) }

\* h["Link"] for the response whose Link header lines hold the links lines.
HeaderValues(lines) == [i \in 1..Len(lines) |-> LineText(lines[i])]

\* What c.Get can give for the URI of an authorization.
AuthzGets ==
    { [err |-> ErrTransport, res |-> NoBody] }
    \cup { [err |-> Nil, res |-> [NoBody EXCEPT !.code = c]] : c \in {200, 202, 500} }
    \cup { [err |-> Nil,
            res |-> [NoBody EXCEPT !.code = c, !.decodeOK = TRUE, !.status = s,
                                   !.challenges = cs, !.combinations = cb,
                                   !.identifier = [type |-> "dns", value |-> "example.com"]]] :
             c \in {200, 202}, s \in {StatusPending, StatusValid},
             cs \in ChallengeLists, cb \in CombinationLists }

\* The resource as the second of two calls finds it: as the first did, or
\* changed into one of a few others.
DirectoryThen(g) ==
    {g} \cup { [err |-> Nil, res |-> [NoRes EXCEPT !.code = 200, !.status = "200 OK"],
                body |-> b] : b \in DirectoryBodies }
AuthzThen(g) ==
    {g} \cup { [g EXCEPT !.res.status = StatusValid],
               [g EXCEPT !.res.challenges = << >>] }

\* The requests of PostJWS as they would be if a POST that failed at
\* transport level were sent once more.
PostJWSRequestsRetry(url, h, signOK, p) ==
    << Request("HEAD", url, FALSE) >>
    \o (IF PostJWS(h, signOK, p).sent THEN << Request("POST", url, TRUE) >> ELSE << >>)
    \o (IF PostJWS(h, signOK, p).sent /\ p.err # Nil
        THEN << Request("POST", url, TRUE) >> ELSE << >>)

\* The requests of PostJWS (src/acme.go:271-285): the HEAD of fetchNonce,
\* then c.Do(req) once when there is a nonce and a signed body.
PostJWSRequests(url, h, signOK, p) ==
    << Request("HEAD", url, FALSE) >>
    \o (IF PostJWS(h, signOK, p).sent THEN << Request("POST", url, TRUE) >> ELSE << >>)

\* The operations that go through PostJWS, each with the URL it posts to
\* and what c.Do can give it.
PostOperations ==
    { [op |-> "PostJWS", url |-> "new-authz", p |-> p] : p \in PlainPostOutcomes }
    \cup { [op |-> "Authorize", url |-> "new-authz", p |-> p] : p \in AuthorizeOutcomes }
    \cup { [op |-> "Accept", url |-> "challenge-uri-1", p |-> p] : p \in AcceptOutcomes }
    \cup { [op |-> "CreateCert", url |-> "new-cert", p |-> p] : p \in CreateCertOutcomes }
    \cup { [op |-> "doReg", url |-> "new-reg", p |-> p] : p \in RegOutcomes }

\* What the operation returns for the outcome the network gives: whether
\* the POST went out, and the error.
PostReturn(c) ==
    LET r == CASE c.op = "PostJWS" -> PostJWS(c.h, c.signOK, c.p)
               [] c.op = "Authorize" -> Authorize(c.h, c.signOK, c.p)
               [] c.op = "Accept" -> Accept(c.h, c.signOK, c.p)
               [] c.op = "CreateCert" -> CreateCert(c.h, c.signOK, c.p)
               [] c.op = "doReg" -> doReg(c.h, c.signOK, c.p, ZeroAccount, "new-reg")
    IN [sent |-> r.sent, err |-> r.err]

LibCalls ==
    { Call("fetchNonce", h) : h \in HeadResponses }
    \cup { Call("parseLinkHeader", [lines |-> ls, rel |-> r]) :
             ls \in LinkHeaders, r \in Rels }
    \cup { Call("Discover", [url |-> "directory-url", first |-> g, second |-> g2]) :
             <<g, g2>> \in { <<x, y>> \in DiscoverOutcomes \X DiscoverOutcomes :
                                y \in DirectoryThen(x) } }
    \cup { Call("GetAuthz", [url |-> "authz-uri", first |-> g, second |-> g2]) :
             <<g, g2>> \in { <<x, y>> \in AuthzGets \X AuthzGets :
                                y \in AuthzThen(x) } }
    \cup { Call("Post", [op |-> o.op, url |-> o.url, h |-> h, signOK |-> ok, p |-> o.p]) :
             o \in PostOperations, h \in HeadOutcomes("n"), ok \in BOOLEAN }

LibInit ==
    /\ InitPost /\ InitCert /\ InitErr /\ InitReg /\ InitShare /\ InitMain
    /\ InitMore
    /\ lib \in LibCalls

Returns(v) ==
    /\ lib' = [lib EXCEPT !.out = v, !.done = TRUE]
    /\ UNCHANGED <<postVars, certVars, errVars, regVars, shareVars, mainVars, moreVars>>

CallFetchNonce ==
    /\ lib.fn = "fetchNonce"
    /\ ~lib.done
    /\ Returns(fetchNonce(lib.in))

CallParseLinkHeader ==
    /\ lib.fn = "parseLinkHeader"
    /\ ~lib.done
    /\ Returns(parseLinkHeader(HeaderValues(lib.in.lines), lib.in.rel))

\* A second call follows the first, its result kept after the first's.
ReturnsAgain(v) ==
    /\ lib' = [lib EXCEPT !.out = Append(@, v)]
    /\ UNCHANGED <<postVars, certVars, errVars, regVars, shareVars, mainVars, moreVars>>

DiscoverCall(g) == [ret |-> Discover(g), reqs |-> DiscoverRequests(lib.in.url)]

CallDiscover ==
    /\ lib.fn = "Discover"
    /\ ~lib.done
    /\ Returns(<< DiscoverCall(lib.in.first) >>)

CallDiscoverAgain ==
    /\ lib.fn = "Discover"
    /\ lib.done
    /\ Len(lib.out) = 1
    /\ ReturnsAgain(DiscoverCall(lib.in.second))

GetAuthzCall(g) == [ret |-> GetAuthz(g), reqs |-> GetAuthzRequests(lib.in.url)]

CallGetAuthz ==
    /\ lib.fn = "GetAuthz"
    /\ ~lib.done
    /\ Returns(<< GetAuthzCall(lib.in.first) >>)

CallGetAuthzAgain ==
    /\ lib.fn = "GetAuthz"
    /\ lib.done
    /\ Len(lib.out) = 1
    /\ ReturnsAgain(GetAuthzCall(lib.in.second))

\* One call of an operation that goes through PostJWS.
CallPost ==
    /\ lib.fn = "Post"
    /\ ~lib.done
    /\ Returns([ret |-> PostReturn(lib.in),
                reqs |-> PostJWSRequests(lib.in.url, lib.in.h, lib.in.signOK, lib.in.p)])

LibNext ==
    \/ CallFetchNonce
    \/ CallParseLinkHeader
    \/ CallDiscover
    \/ CallDiscoverAgain
    \/ CallGetAuthz
    \/ CallGetAuthzAgain
    \/ CallPost

\* ------------------------------------------------------------------------
\* The specifications
\* ------------------------------------------------------------------------
Init == InitPost /\ InitCert /\ InitErr /\ InitReg /\ InitLib

ErrSpec == Init /\ [][ErrNext]_vars

RegSpec == Init /\ [][RegNext]_vars

LibSpec == LibInit /\ [][LibNext]_vars

\* The registration call starts on any of the Accounts two can hold.
ShareInit ==
    /\ InitPost /\ InitCert /\ InitErr /\ InitLib
    /\ reg = NoReg
    /\ acct \in SharedAccounts

ShareSpec == ShareInit /\ [][ShareNext]_vars

MainSpec == Init /\ [][MainNext]_vars

ThumbSpec == Init /\ [][ThumbNext]_vars

\* A goroutine that can take a step of Error or Sprintf takes it.
RetryFairSpec == Init /\ [][RetryNext]_vars /\ WF_vars(RetryProgram)

Spec == Init /\ [][PostNext]_vars

CertSpec == Init /\ [][CertNext]_vars

\* The cert command is one running process: it takes its next step.
CertFairSpec == Init /\ [][CertNext]_vars /\ WF_vars(CertProgram)

\* ------------------------------------------------------------------------
\* Properties of Spec (Client.PostJWS)
\* ------------------------------------------------------------------------
POSTs == { i \in DOMAIN wire : wire[i].method = "POST" }
HEADs == { i \in DOMAIN wire : wire[i].method = "HEAD" }

\* The HEADs the call of POST i made before it.
OwnHeads(i) == { j \in HEADs : j < i /\ wire[j].call = wire[i].call }

\* C1: a POST is sent only if the HEAD of the same call was answered with a
\* non-empty Replay-Nonce, and the POST carries exactly that nonce; after a
\* HEAD that failed at transport level or gave no nonce, no POST is sent.
C1_PostOnlyWithFetchedNonce ==
    \A i \in POSTs :
      \E j \in OwnHeads(i) :
        /\ wire[j].ok
        /\ wire[j].nonce # EmptyString
        /\ wire[i].nonce = wire[j].nonce

\* C2: when the HEAD of fetchNonce fails at transport level, fetchNonce
\* returns a non-nil error, and one other than 'nonce not found'.
C2_TransportErrorReported ==
    \A g \in Goroutines :
      (th[g].pc = "post" /\ ~th[g].head.ok) =>
        /\ th[g].fetched.err # Nil
        /\ th[g].fetched.err # ErrNonceNotFound

\* C8: every POST is preceded by one HEAD of its own call, to the same URL,
\* and no nonce is kept between calls: a call sends at most one POST, and
\* the nonce a HEAD was given is carried by at most one POST.
C8_OwnHeadNoNonceKept ==
    /\ \A i \in POSTs :
         /\ Cardinality(OwnHeads(i)) = 1
         /\ \A j \in OwnHeads(i) : wire[j].url = wire[i].url
    /\ \A i, k \in POSTs : i # k => wire[i].call # wire[k].call
    /\ \A j \in HEADs :
         wire[j].nonce # EmptyString =>
           Cardinality({ i \in POSTs : wire[i].nonce = wire[j].nonce }) <= 1

\* Two calls have each sent a POST carrying a nonce.
C8_Witness ==
    \E i, k \in POSTs :
      /\ i < k
      /\ wire[i].nonce # EmptyString
      /\ wire[k].nonce # EmptyString

\* C9: with concurrent calls, each POST carries the nonce the HEAD of its
\* own call returned, and (the CA handing out a distinct nonce per HEAD) no
\* two POSTs carry the same nonce.
C9_OwnNonceNeverShared ==
    /\ \A i \in POSTs :
         \E j \in OwnHeads(i) : wire[j].ok /\ wire[i].nonce = wire[j].nonce
    /\ \A i, k \in POSTs : i # k => wire[i].nonce # wire[k].nonce

\* ------------------------------------------------------------------------
\* Properties of CertSpec (the cert command)
\* ------------------------------------------------------------------------
PollPCs == {"poll", "sleep"}

\* C3: a domain's flow reports success only after a GetAuthz response with
\* status 'valid' was received for it; a 200 or 202 answer to Accept, or the
\* status in its body, does not end the flow: it goes on to poll.
C3_SuccessOnlyAfterValidPoll ==
    /\ authzOK \subseteq gotValid
    /\ (acc.sent /\ acc.err = Nil /\ lastPoll = NoPoll) =>
         (cpc = "poll" /\ di \notin authzOK)

\* Every domain's flow has reported success, the last after an Accept
\* answered 202 with a challenge status that says nothing of the
\* authorization.
C3_Witness ==
    /\ authzOK = Domains
    /\ acc.code = 202
    /\ acc.rc.status = StatusPending

\* C4: when GetAuthz returns an error in the polling loop, the loop goes on
\* to poll again; the flow neither crashes nor ends because of that error.
C4_PollErrorKeepsPolling ==
    /\ cpc # "panicked"
    /\ lastPoll.err # Nil => cpc \in PollPCs

\* C5: while the CA keeps reporting the authorization as 'pending', the
\* polling loop does not run forever: it ends (with a timeout error).
C5_PendingPollingEnds ==
    (cpc \in PollPCs /\ [](caStatus = StatusPending)) ~> (cpc \notin PollPCs)

\* C6: pollCert sleeps and retries only after a RetryError, for the duration
\* the RetryError carries; a hard error ends the operation.
C6_RetryOnlyOnRetryError ==
    cpc = "certSleep" => (lastFetch.kind = "retry" /\ sleepDur = lastFetch.dur)

\* The flow of the current domain ended without success.
FlowFailed == di \in Domains /\ di \notin authzOK /\ cpc \in {"exited", "panicked"}

\* C7: the new-cert request is sent only after every domain's authorization
\* was observed 'valid'; if the flow of any domain fails, no new-cert request
\* is sent, no certificate file is written and the exit status is 1.
C7_NewCertOnlyWhenAllValid ==
    /\ newCertSent > 0 => gotValid = Domains
    /\ FlowFailed => (newCertSent = 0 /\ ~certWritten /\ exitStatus = 1)

\* C10: Authorize returns an error and no Authorization whenever the status
\* in the body of the 201 response is not 'pending'.
C10_AuthorizeRejectsNonPending ==
    (z.sent /\ z.resp.err = Nil /\ z.resp.res.code = 201
       /\ z.resp.res.status # StatusPending) =>
      (z.err # Nil /\ z.az = NoAuthz)

\* A 201 response whose body was decoded and says 'valid' was refused.
C10_Witness ==
    /\ z.resp.err = Nil
    /\ z.resp.res.code = 201
    /\ z.resp.res.decodeOK
    /\ z.resp.res.status = StatusValid
    /\ z.err = ErrUnexpectedStatus

\* C11: Accept returns the Challenge decoded from the response when the
\* response status is 200 or 202, and an error made of the response, with
\* no Challenge, for every other status.
C11_AcceptTakes200And202 ==
    (acc.sent /\ acc.resp.err = Nil) =>
      /\ acc.resp.res.code \notin {200, 202} =>
           (acc.err = ErrACME /\ acc.rc = NoChallenge)
      /\ (acc.resp.res.code \in {200, 202} /\ acc.resp.res.decodeOK) =>
           (acc.err = Nil /\ acc.rc.status = acc.resp.res.status)
      /\ acc.err = Nil => acc.resp.res.code \in {200, 202}

\* Accept was answered 202 and returned the challenge of the body.
C11_Witness ==
    /\ acc.sent
    /\ acc.resp.res.code = 202
    /\ acc.resp.res.decodeOK
    /\ acc.err = Nil
    /\ acc.rc.status = StatusValid

\* C17: on a 201 response CreateCert succeeds both ways: it returns the
\* certificate parsed from the body when the response carries one, and a
\* nil certificate with the Location URL when the body is empty; the cert
\* command then polls that URL, and polls only in that case.
C17_CertFromBodyOrPoll ==
    /\ (cc.sent /\ cc.resp.err = Nil /\ cc.resp.res.code = 201) =>
         /\ cc.resp.res.body = "der" => (cc.err = Nil /\ cc.cert = "der")
         /\ cc.resp.res.body = "" =>
              (cc.err = Nil /\ cc.cert = "" /\ cc.certURL = cc.resp.res.location)
    /\ cpc \in {"pollCert", "certSleep"} =>
         (cc.err = Nil /\ cc.resp.res.body = "")
    /\ lastFetch # NoFetch => lastFetch.url = cc.resp.res.location

\* C18: whenever CreateCert returns without an error, the certURL it returns
\* is not empty, with or without a certificate.
C18_CertURLNeverEmpty ==
    (cc.sent /\ cc.err = Nil) => cc.certURL # ""

\* The states of the cert command in which no flow holds a listener: before
\* a flow opens it, after the last flow, and after the end of the process.
NoListenerPCs ==
    {"start", "authorize", "listen", "createCert", "pollCert", "certSleep",
     "writeCert", "exited", "panicked"}

\* C19: when a domain's flow ends, whatever its outcome, its listener is
\* closed before the flow returns: never are two listeners open, the only
\* one open is that of the running flow, and none is open when the next
\* flow starts, when the new-cert request is sent or when the command ends.
C19_ListenerClosedWithFlow ==
    /\ Cardinality(listening) <= 1
    /\ listening \subseteq {di}
    /\ cpc \in NoListenerPCs => listening = {}

\* The second domain's flow holds its listener, the first domain's flow
\* having ended with success.
C19_Witness ==
    /\ 1 \in authzOK
    /\ di = 2
    /\ cpc = "poll"
    /\ listening = {2}

\* C20: for each domain the requests are ordered: Accept is sent only after
\* Authorize returned a pending Authorization and with the challenge
\* listener open; GetAuthz is sent only after Accept returned success; the
\* next domain's Authorize is sent only after the flows of the domains
\* before it ended.
C20_RequestsOrdered ==
    [][ /\ (acc' # acc /\ acc'.sent) =>
             (z.err = Nil /\ z.az.status = StatusPending /\ di \in listening)
        /\ lastPoll' # lastPoll => (acc.sent /\ acc.err = Nil)
        /\ (z' # z /\ z'.sent) =>
             (listening = {} /\ \A d \in 1..(di - 1) : d \in authzOK)
        /\ di' # di => (di' = di + 1 /\ (di = 0 \/ di \in authzOK'))
      ]_vars

\* The second domain's authorization is being polled after Accept returned
\* success, the first domain's flow having ended.
C20_Witness ==
    /\ di = 2
    /\ 1 \in authzOK
    /\ z.az.status = StatusPending
    /\ acc.sent
    /\ acc.err = Nil
    /\ lastPoll # NoPoll

\* The poll that ended the loop was answered and decoded.
PollSucceeded == lastPoll # NoPoll /\ lastPoll.err = Nil

\* C21: once the CA reports the authorization as 'valid' or 'invalid' (and it
\* keeps to it), the polling flow of the domain ends; when a GetAuthz call
\* that succeeded ends it, the flow ends with success for 'valid', and for
\* 'invalid' with a failure of that domain (exit status 1, no success
\* recorded).
C21_SettledPollingEnds ==
    /\ [][ (cpc = "poll" /\ cpc' \notin PollPCs /\ lastPoll'.err = Nil) =>
             IF lastPoll'.az.status = StatusValid
             THEN /\ di \in authzOK'
                  /\ cpc' \in {"authorize", "createCert"}
                  /\ exitStatus' = exitStatus
             ELSE /\ lastPoll'.az.status = StatusInvalid
                  /\ cpc' = "exited"
                  /\ exitStatus' = 1
                  /\ di \notin authzOK'
                  /\ authzErr' = ErrCouldNotAuthorize
          ]_vars
    /\ (cpc \in PollPCs /\ caStatus \in {StatusValid, StatusInvalid}) ~>
         (cpc \notin PollPCs)

\* The flow of the second domain ended with a failure after a poll that
\* said 'invalid', the first domain's having ended with success.
C21_Witness ==
    /\ di = 2
    /\ 1 \in authzOK
    /\ PollSucceeded
    /\ lastPoll.az.status = StatusInvalid
    /\ cpc = "exited"
    /\ authzErr = ErrCouldNotAuthorize

\* C25: when new-authz answers 201 with status 'pending', Authorize returns
\* an Authorization whose URI is the Location header of the response and
\* whose identifier, challenges (in their order) and combinations are those
\* of the body; the payload it signs has resource 'new-authz' and the
\* identifier of type 'dns' whose value is the domain asked for.
C25_AuthorizationFromResponse ==
    /\ []((z.sent /\ z.resp.err = Nil /\ z.resp.res.code = 201
            /\ z.resp.res.decodeOK /\ z.resp.res.status = StatusPending) =>
           /\ z.err = Nil
           /\ z.az.uri = z.resp.res.location
           /\ z.az.status = StatusPending
           /\ z.az.identifier = z.resp.res.identifier
           /\ z.az.challenges = z.resp.res.challenges
           /\ z.az.combinations = z.resp.res.combinations)
    /\ [][ (cpc = "authorize" /\ z'.sent) =>
             /\ z'.req.resource = "new-authz"
             /\ z'.req.identifier = [type |-> "dns", value |-> DomainName(di)]
          ]_vars

\* Authorize for the second domain returned two challenges and their
\* combinations, with an identifier that is the CA's.
C25_Witness ==
    /\ di = 2
    /\ z.err = Nil
    /\ z.req.identifier.value = "www.example.com"
    /\ z.az.identifier.value = "example.com"
    /\ Len(z.az.challenges) = 2
    /\ z.az.challenges[1].type = "tls-sni-01"
    /\ z.az.challenges[2].type = "http-01"
    /\ z.az.combinations = << <<0>>, <<1>> >>
    /\ z.az.uri = "authz-uri"

\* C26: Accept posts to the URI of the challenge it is given a payload whose
\* resource is 'challenge', whose type is the challenge's type and whose
\* keyAuthorization is the challenge's token, a dot, and the thumbprint of
\* the account's public key.
C26_AcceptRequestOfChallenge ==
    acc.sent =>
      /\ chal \in 1..Len(z.az.challenges)
      /\ acc.req.url = z.az.challenges[chal].uri
      /\ acc.req.payload.resource = "challenge"
      /\ acc.req.payload.type = z.az.challenges[chal].type
      /\ acc.req.payload.keyAuthorization =
           z.az.challenges[chal].token \o "." \o jwkThumbprint(AccountKey)

\* Accept was sent for the second challenge of the list.
C26_Witness ==
    /\ acc.sent
    /\ chal = 2
    /\ acc.req.url = "challenge-uri-2"
    /\ acc.req.payload.type = "http-01"

\* C32: the challenge the cert command accepts, standing at index i of the
\* Authorization's challenge list, satisfies a listed combination by
\* itself: the one-element combination [i] is among those listed.
C32_AcceptedChallengeIsACombination ==
    (acc.sent /\ z.az.combinations # << >>) =>
      \E k \in 1..Len(z.az.combinations) : z.az.combinations[k] = << chal - 1 >>

\* The Authorization lists a challenge of type http-01.
ListsHTTP01(az) == \E i \in 1..Len(az.challenges) : az.challenges[i].type = "http-01"

\* C33: when the Authorization that Authorize returned lists no http-01
\* challenge, the flow of the domain fails with 'no supported challenge
\* found', and no listener is opened, no Accept sent, no poll made; when it
\* lists one, the challenge accepted is the first of them in the list.
C33_FirstHTTP01OrNoChallenge ==
    /\ [][ (cpc = "authorize" /\ cpc' # "authorize" /\ z'.err = Nil) =>
             IF ListsHTTP01(z'.az)
             THEN /\ cpc' = "listen"
                  /\ chal' \in 1..Len(z'.az.challenges)
                  /\ z'.az.challenges[chal'].type = "http-01"
                  /\ \A j \in 1..(chal' - 1) : z'.az.challenges[j].type # "http-01"
             ELSE /\ authzErr' = ErrNoChallenge
                  /\ cpc' = "exited"
                  /\ di \notin listening'
                  /\ ~acc'.sent
                  /\ lastPoll' = NoPoll ]_vars
    /\ [](authzErr = ErrNoChallenge =>
            /\ cpc = "exited"
            /\ ~acc.sent
            /\ lastPoll = NoPoll
            /\ di \notin listening)
    /\ [](acc.sent =>
            /\ z.az.challenges[chal].type = "http-01"
            /\ \A j \in 1..(chal - 1) : z.az.challenges[j].type # "http-01")

\* The flow failed on an Authorization that lists one challenge, of
\* another type.
C33_Witness ==
    /\ authzErr = ErrNoChallenge
    /\ Len(z.az.challenges) = 1
    /\ z.az.challenges[1].type = "tls-sni-01"
    /\ cpc = "exited"

\* C39: with -manual the flow of a domain opens no listener and binds no
\* port, and never fails because the challenge address is taken.
C39_ManualOpensNoListener ==
    certManual => (listening = {} /\ authzErr # ErrListen)

\* ------------------------------------------------------------------------
\* Properties of ErrSpec (responseError)
\* ------------------------------------------------------------------------
\* C12: for a body that decodes as a JSON problem object, the Error has the
\* status of the body when the body has one and the HTTP status code
\* otherwise, and the type and the detail of the body, whether or not the
\* type is a URN the package knows.
C12_ProblemObjectKept ==
    reRes.json =>
      /\ reErr.code = (IF reRes.hasStatus THEN reRes.jstatus ELSE reRes.code)
      /\ reErr.type = reRes.type
      /\ reErr.detail = reRes.detail

\* C13: for a body that is empty or not JSON, the Error has the HTTP status
\* code, and as its detail the raw body, or the status line when the body
\* is empty.
C13_RawBodyOrStatusLine ==
    (reRes # NoRes /\ ~reRes.json) =>
      /\ reErr.code = reRes.code
      /\ reErr.detail = (IF reRes.raw = "" THEN reRes.status ELSE reRes.raw)
      /\ reErr0.code = reRes.code
      /\ reErr0.detail = (IF reRes.raw = "" THEN reRes.status ELSE reRes.raw)

\* A 500 response with an empty body became an Error whose detail is the
\* status line.
C13_Witness ==
    /\ reRes.code = 500
    /\ ~reRes.json
    /\ reRes.raw = ""
    /\ reErr.detail = "500 Internal"

\* ------------------------------------------------------------------------
\* Properties of RegSpec (Register, GetReg, UpdateReg)
\* ------------------------------------------------------------------------
\* C14: when the POST of Register is answered 201 with a Location header,
\* Register succeeds and the Account's URI is that header, whatever the
\* body, the empty body included.
C14_RegisterTakesAnyBody ==
    (reg.op = "Register" /\ reg.sent /\ reg.resp.err = Nil
       /\ reg.resp.res.code = 201 /\ reg.resp.res.location # "") =>
      (reg.err = Nil /\ reg.out.uri = reg.resp.res.location)

\* C15: Register succeeds only for status 201; for every other status,
\* other 2xx codes included, it returns the Error made of the response and
\* leaves the Account without data of the response.
C15_RegisterOnly201 ==
    (reg.op = "Register" /\ reg.sent /\ reg.resp.err = Nil) =>
      /\ reg.err = Nil => reg.resp.res.code = 201
      /\ reg.resp.res.code # 201 => (reg.err = ErrACME /\ reg.out = reg.in)

C36_SuccessKeepsURI ==
    (reg.op \in {"GetReg", "UpdateReg"} /\ reg.err = Nil) => reg.out.uri = reg.url

\* C38: when Register or UpdateReg returns an error, the Account the
\* caller passed in has the field values it had before the call.
C38_ErrorLeavesAccount ==
    (reg.op \in {"Register", "UpdateReg"} /\ reg.err # Nil) => reg.out = reg.in

\* ------------------------------------------------------------------------
\* Properties of LibSpec (the functions of the library)
\* ------------------------------------------------------------------------
Called(fn) == lib.fn = fn /\ lib.done

\* C22: for a HEAD response of any status code, fetchNonce returns the
\* value of a non-empty Replay-Nonce header with no error, and the empty
\* nonce with a 'nonce not found' error when the header is absent or empty.
C22_NonceOfAnyStatus ==
    Called("fetchNonce") =>
      IF lib.in.nonce # EmptyString
      THEN lib.out = [nonce |-> lib.in.nonce, err |-> Nil]
      ELSE lib.out = [nonce |-> EmptyString, err |-> ErrNonceNotFound]

\* fetchNonce returned the nonce of a 400 response.
C22_Witness ==
    /\ Called("fetchNonce")
    /\ lib.in.code = 400
    /\ lib.in.nonce = "nonce2"
    /\ lib.out.nonce = "nonce2"
    /\ lib.out.err = Nil

\* The links of the header, line after line.
RECURSIVE AllLinks(_)
AllLinks(lines) ==
    IF lines = << >> THEN << >> ELSE Head(lines) \o AllLinks(Tail(lines))

\* The URL of the first of the links ls whose rel is rel, "" if there is
\* none.
URLOfRel(ls, rel) ==
    IF \E i \in 1..Len(ls) : ls[i].rel = rel
    THEN ls[CHOOSE i \in 1..Len(ls) :
              ls[i].rel = rel /\ \A j \in 1..(i - 1) : ls[j].rel # rel].url
    ELSE << >>

\* C23: for header lines of one link each, parseLinkHeader returns the URL,
\* without the angle brackets, of the first line whose rel parameter is rel
\* (case-sensitively, white space and quotes trimmed, wherever the parameter
\* stands), and the empty string when no line has it.
C23_FirstLineWithRel ==
    (Called("parseLinkHeader")
       /\ \A i \in 1..Len(lib.in.lines) : Len(lib.in.lines[i]) = 1) =>
      lib.out = URLOfRel(AllLinks(lib.in.lines), lib.in.rel)

\* C24: for a header line of several links separated by commas,
\* parseLinkHeader returns the URL of the link whose rel parameter is rel,
\* and never the URL of another link of the line.
C24_LinkOfCommaSeparatedLine ==
    (Called("parseLinkHeader")
       /\ \E i \in 1..Len(lib.in.lines) : Len(lib.in.lines[i]) > 1) =>
      /\ lib.out = URLOfRel(AllLinks(lib.in.lines), lib.in.rel)
      /\ \A i \in 1..Len(lib.in.lines) : \A k \in 1..Len(lib.in.lines[i]) :
           lib.in.lines[i][k].rel # lib.in.rel => lib.out # lib.in.lines[i][k].url

\* The body is a directory: one JSON object whose members are strings.
IsDirectory(body) ==
    body.syntaxOK /\ \A m \in DOMAIN body.members : body.members[m] # NotAString

\* The value of member m of a directory, "" when it has none.
Member(body, m) == IF m \in DOMAIN body.members THEN body.members[m] ELSE ""

\* C27: Discover sends one unauthenticated GET and nothing else; on status
\* 200 it returns, with no error, an Endpoint whose four URLs are the
\* directory's new-reg, new-authz, new-cert and revoke-cert; on any other
\* status it returns the classified Error and the zero Endpoint.
C27_DiscoverDirectory ==
    Called("Discover") =>
      LET g == lib.in.first
          r == lib.out[1] IN
      /\ r.reqs = << [method |-> "GET", url |-> lib.in.url, signed |-> FALSE] >>
      /\ (g.err = Nil /\ g.res.code = 200 /\ IsDirectory(g.body)) =>
            /\ r.ret.err = Nil
            /\ r.ret.ep.RegURL = Member(g.body, "new-reg")
            /\ r.ret.ep.AuthzURL = Member(g.body, "new-authz")
            /\ r.ret.ep.CertURL = Member(g.body, "new-cert")
            /\ r.ret.ep.RevokeURL = Member(g.body, "revoke-cert")
      /\ (g.err = Nil /\ g.res.code # 200) =>
            /\ r.ret.err = ErrACME
            /\ r.ret.acme = responseError(g.res)
            /\ r.ret.ep = ZeroEndpoint

\* Discover returned the four URLs of a 200 directory.
C27_Witness ==
    /\ Called("Discover")
    /\ lib.in.first.res.code = 200
    /\ lib.out[1].ret.ep.RegURL = "https://example.com/acme/new-reg"
    /\ lib.out[1].ret.ep.RevokeURL = "https://example.com/acme/revoke-cert"
    /\ lib.out[1].ret.err = Nil

\* Discover was refused with a 201.
C27_WitnessRefused ==
    /\ Called("Discover")
    /\ lib.in.first.res.code = 201
    /\ lib.out[1].ret.ep = ZeroEndpoint

RequestCount(reqs, m) == Cardinality({ k \in 1..Len(reqs) : reqs[k].method = m })

\* What the network gave the k-th of the calls of Discover or GetAuthz.
GetOutcome(k) == IF k = 1 THEN lib.in.first ELSE lib.in.second

\* C34: when the POST of an operation that goes through PostJWS (PostJWS,
\* Authorize, Accept, CreateCert, doReg) or the GET of Discover or GetAuthz
\* fails at transport level, the operation returns that very error, which
\* is not an ACME Error, and the failed request is the last one of the
\* call; every call makes at most one HEAD and one POST and no GET, or one
\* GET and nothing else.
C34_TransportErrorReturnedOnce ==
    /\ (lib.fn = "Post" /\ lib.done) =>
         /\ RequestCount(lib.out.reqs, "HEAD") <= 1
         /\ RequestCount(lib.out.reqs, "POST") <= 1
         /\ RequestCount(lib.out.reqs, "GET") = 0
         /\ (lib.out.ret.sent /\ lib.in.p.err = ErrTransport) =>
              /\ lib.out.ret.err = lib.in.p.err
              /\ lib.out.ret.err # ErrACME
              /\ lib.out.reqs[Len(lib.out.reqs)].method = "POST"
    /\ (lib.fn \in {"Discover", "GetAuthz"} /\ lib.done) =>
         \A k \in 1..Len(lib.out) :
           /\ Len(lib.out[k].reqs) = 1
           /\ lib.out[k].reqs[1].method = "GET"
           /\ GetOutcome(k).err = ErrTransport =>
                /\ lib.out[k].ret.err = GetOutcome(k).err
                /\ lib.out[k].ret.err # ErrACME

\* The POST of Authorize went out after its HEAD and failed at transport
\* level; Authorize returned the transport error.
C34_Witness ==
    /\ lib.fn = "Post"
    /\ lib.done
    /\ lib.in.op = "Authorize"
    /\ lib.in.h.ok
    /\ lib.in.p.err = ErrTransport
    /\ lib.out.ret.sent
    /\ lib.out.ret.err = ErrTransport
    /\ Len(lib.out.reqs) = 2

\* C37: Discover returns a nil error only for a 200 response whose body
\* was decoded as a directory object with no error.
C37_NilErrorOnlyWhenDecoded ==
    (lib.fn = "Discover" /\ lib.done) =>
      \A k \in 1..Len(lib.out) :
        lib.out[k].ret.err = Nil =>
          /\ GetOutcome(k).res.code = 200
          /\ DecodeEndpoint(GetOutcome(k).body).err = Nil

\* ------------------------------------------------------------------------
\* Properties of ShareSpec (a registration call on a shared Account)
\* ------------------------------------------------------------------------
\* The statements of doReg, one after the other, leave the Account as
\* doReg does.
DoRegStepsAgree ==
    upd.pc = "returned" =>
      /\ upd.target = "shared" => acct = upd.after
      /\ upd.target = "fresh" => acct = upd.before

\* C29: another holder of the Account reads either the Account as it was
\* before the registration call or the Account as the call leaves it,
\* never one only part of whose fields the call has set.
C29_AtomicAccountUpdate ==
    seen.a \in {seen.before, seen.after}

\* ------------------------------------------------------------------------
\* Properties of MainSpec (the exit status)
\* ------------------------------------------------------------------------
\* The largest member of a set of statuses, 0 for the empty set.
MaxOf(S) == IF S = {} THEN 0 ELSE CHOOSE m \in S : \A k \in S : k <= m

\* The n of the calls that are past the assignment or need none.
Settled == recorded \cup { gs[g].n : g \in { k \in Callers : gs[k].pc = "unlock" } }

\* The arguments are a usage error.
UsageError ==
    \/ Len(margs) = 0
    \/ margs[1] = "help" /\ Len(margs) > 2
    \/ margs[1] = "help" /\ Len(margs) = 2 /\ margs[2] \notin CommandNames
    \/ margs[1] \notin CommandNames \cup {"help"}

RFC7638Text ==
    <<"{", "\"", "e", "\"", ":", "\"">> \o base64E
    \o <<"\"", ",", "\"", "k", "t", "y", "\"", ":", "\"", "R", "S", "A", "\"",
         ",", "\"", "n", "\"", ":", "\"">> \o base64N \o <<"\"", "}">>
RFC7638Bytes == [i \in 1..Len(RFC7638Text) |-> ByteOf(RFC7638Text[i])]

\* C31: jwkThumbprint of the key of RFC 7638 is the published value, the
\* unpadded base64url text of the SHA-256 of the JSON object with members
\* e, kty, n in that order and no white space, and every call gives it.
C31_PublishedThumbprint ==
    /\ \A k \in 1..Len(thumb.out) : thumb.out[k] = expected
    /\ thumb.pc # "idle" =>
         /\ Len(thumb.msg) % 64 = 0
         /\ Len(thumb.msg) - Len(RFC7638Bytes) \in 9..72
         /\ SubSeq(thumb.msg, 1, Len(RFC7638Bytes)) = RFC7638Bytes

\* jwkThumbprint has returned twice.
C31_Witness ==
    /\ Len(thumb.out) = 2
    /\ thumb.out[2] = expected
    /\ thumb.pc = "idle"

\* ------------------------------------------------------------------------
\* Properties of RetryFairSpec (RetryError.Error)
\* ------------------------------------------------------------------------
\* time.Duration.String for the durations of the model.
DurationString(d) ==
    CASE d = 0 -> "0s"
      [] d = 1 -> "1ns"
      [] d = 2000000000 -> "2s"
      [] d = 1000000 -> "1ms"
      [] d = 1000000000 -> "1s"

\* C35: a call of RetryError.Error returns, for every duration, and what it
\* returns is "retry after " followed by the duration.
C35_ErrorReturnsText ==
    (retry.pc = "Error") ~>
      (retry.pc = "returned" /\ retry.out = "retry after " \o DurationString(retry.re))


=============================================================================
